---- MODULE Spec2Model ----
(***************************************************************************)
(* Raw-mode multiline line editor (TerminalInputHandler) and its session   *)
(* history (InputHistory) of the gtp-oss chat client.                      *)
(*                                                                         *)
(* Spec     : a session of get_multiline_input calls driven by the run     *)
(*            loop, one step per byte read from the keyboard.              *)
(* SpecHist : an InputHistory object driven by arbitrary calls of its      *)
(*            methods.                                                     *)
(* Characters are their code points; texts are sequences of code points.   *)
(***************************************************************************)
EXTENDS Integers, Sequences, FiniteSets, TLC

VARIABLES
    pc,                   \* position of the session: idle, read, empty, final, palette, unwind, fallback, exited, hist, parse, retry
    buffer,               \* local `buffer` of get_multiline_input
    ctrl_c_pressed_once,  \* Ctrl+C latch
    esc_reset_pending,    \* Escape-reset latch
    pending_esc,          \* the previous byte was an Escape handled by the main dispatch
    input_history,        \* self.input_history (an InputHistory object)
    current_buffer,       \* self._current_buffer, read by the repaint helpers
    term_mode,            \* mode of the terminal: cooked or raw
    old_settings,         \* mode saved by tcgetattr on entry
    raw_entered,          \* tty.setraw has been called in this call
    exit_kind,            \* why the read loop was left: none, submit, palette_exit, interrupt, hook_interrupt, fault
    result,               \* outcome of the last finished call
    lastByte,             \* the byte read most recently in this call
    lastEvent,            \* how the read loop consumed lastByte
    restores,             \* tcsetattr(old_settings) calls since tty.setraw was last called
    screen,               \* rows written by the call in progress and the cursor (r = 0: output not followed)
    keys,                 \* the bytes this session's user types as text, or to end an escape sequence
    opening,              \* how far the first bytes of this call match Ctrl+C x Ctrl+C, ESC [ A or x Backspace
    h_ret,                \* SpecHist: value returned by the last InputHistory method
    h_live,               \* SpecHist: live text passed to the first get_previous of a walk
    h_back,               \* SpecHist: get_previous calls of the walk in progress
    h_fwd,                \* SpecHist: get_next calls of the walk in progress
    h_phase,              \* SpecHist: fill, back, fwd or free
    h_accepted,           \* SpecHist: the entries add_entry has accepted since construction or clear
    p_input,              \* SpecParse: the line handed to parse_command
    p_result,             \* SpecParse: what parse_command returned for it
    h_call,               \* SpecHist: the last InputHistory method called, its argument, and
                          \* whether it left the object as it was
    source,               \* sys.stdin: open, or ended (every read returns the empty string)
    selected,             \* the palette item whose selection ended the last hook call
    gptcli,               \* SpecPair: GPTCLI.get_multiline_input reading the same bytes
    retry                 \* SpecRetry: one call of RetryHandler.retry_with_backoff

vars == <<pc, buffer, ctrl_c_pressed_once, esc_reset_pending, pending_esc,
          input_history, current_buffer, term_mode, old_settings, raw_entered,
          exit_kind, result, restores, lastByte, lastEvent, opening, keys, screen, h_ret, h_live,
          h_back, h_fwd, h_phase, h_accepted, h_call, p_input, p_result,
          source, selected, gptcli, retry>>

\* what a step of the read loop records about the bytes it has read
traceVars == <<lastByte, lastEvent, opening>>

parseVars == <<p_input, p_result>>

\* what no step of get_multiline_input changes
sideVars == <<source, retry>>

walkVars == <<h_ret, h_live, h_back, h_fwd, h_phase, h_accepted, h_call>>

----------------------------------------------------------------------------
(* Bounds *)

MaxLen == 2          \* longest buffer typed
MaxHistChars == 1    \* characters stored in the history of a session, all entries together
MaxCap == 3          \* largest max_entries of an InputHistory on its own
MaxAccepted == 4     \* entries accepted by an InputHistory on its own between two clear() calls
MaxRows == 4         \* terminal rows a call writes to, helper row included

----------------------------------------------------------------------------
(* Bytes *)

CTRL_C == 3
BS == 8
LF == 10
CR == 13
ESC == 27
SP == 32
SLASH == 47
UP == 65
DOWN == 66
LBRACKET == 91
DEL == 127
CTRL_A == 1
NoByte == 0 - 1

Bytes == {CTRL_C, BS, LF, CR, ESC, SP, SLASH, UP, DOWN, LBRACKET, DEL}

\* a blank and a letter
TextKeys == {SP, UP}

\* the same keys and a control byte that no branch of the loop names
BytesWithControl == Bytes \cup {CTRL_A}

\* prefill_text: the run loop calls get_multiline_input() without argument
Prefills == { <<>> }

FallbackLines == { <<>>, <<SP>>, <<UP>> }

----------------------------------------------------------------------------
(* Text helpers *)

IsSpace(c) == c \in {9, 10, 11, 12, 13, 28, 29, 30, 31, 32, 133, 160}

RECURSIVE LStrip(_)
LStrip(s) ==
    IF s = <<>> THEN <<>>
    ELSE IF IsSpace(Head(s)) THEN LStrip(Tail(s)) ELSE s

RECURSIVE RStrip(_)
RStrip(s) ==
    IF s = <<>> THEN <<>>
    ELSE IF IsSpace(s[Len(s)]) THEN RStrip(SubSeq(s, 1, Len(s) - 1)) ELSE s

\* str.strip() leaving the text as it is
Strip_none(s) == s

Strip(s) == RStrip(LStrip(s))

RECURSIVE LastLine(_)
LastLine(s) ==
    IF s = <<>> THEN <<>>
    ELSE IF s[Len(s)] = LF THEN <<>>
    ELSE Append(LastLine(SubSeq(s, 1, Len(s) - 1)), s[Len(s)])

Pop(s) == SubSeq(s, 1, Len(s) - 1)

has_content(buf) == Strip(buf) # <<>>

----------------------------------------------------------------------------
(* InputHistory *)

NoEntry == [some |-> FALSE, val |-> <<>>]
NoCall == [op |-> "none", arg |-> <<>>, same |-> TRUE]
Entry(t) == [some |-> TRUE, val |-> t]

InputHistory(max) ==
    [history |-> <<>>, position |-> 0, original_input |-> <<>>, max_entries |-> max]

\* a full history refusing the new entry instead of dropping the oldest
DequeAppend_newest_refused(d, x, maxlen) ==
    IF Len(d) >= maxlen THEN d ELSE Append(d, x)

DequeAppend(d, x, maxlen) ==
    IF maxlen = 0 THEN <<>>
    ELSE IF Len(d) >= maxlen THEN Append(Tail(d), x)
    ELSE Append(d, x)

reset_position(H) == [H EXCEPT !.position = 0, !.original_input = <<>>]

\* add_entry appending a text equal to the newest entry
add_entry_duplicates_kept(H, input_text) ==
    IF input_text = <<>> \/ Strip(input_text) = <<>> THEN H
    ELSE reset_position(
             [H EXCEPT !.history = DequeAppend(H.history, Strip(input_text), H.max_entries)])

\* add_entry leaving the navigation of a blank text's call reset
add_entry_blank_resets(H, input_text) ==
    IF input_text = <<>> \/ Strip(input_text) = <<>> THEN reset_position(H)
    ELSE LET trimmed == Strip(input_text) IN
         IF H.history # <<>> /\ H.history[Len(H.history)] = trimmed THEN H
         ELSE reset_position(
                  [H EXCEPT !.history = DequeAppend(H.history, trimmed, H.max_entries)])

\* add_entry skipping every text once an entry is stored, not only a repeated one
add_entry_first_only(H, input_text) ==
    IF input_text = <<>> \/ Strip(input_text) = <<>> THEN H
    ELSE IF H.history # <<>> THEN H
    ELSE reset_position(
             [H EXCEPT !.history = DequeAppend(H.history, Strip(input_text), H.max_entries)])

add_entry(H, input_text) ==
    IF input_text = <<>> \/ Strip(input_text) = <<>> THEN H
    ELSE LET trimmed == Strip(input_text) IN
         IF H.history # <<>> /\ H.history[Len(H.history)] = trimmed THEN H
         ELSE reset_position(
                  [H EXCEPT !.history = DequeAppend(H.history, trimmed, H.max_entries)])

\* history[-(position)]
FromEnd(H, p) == H.history[Len(H.history) - p + 1]

\* get_previous taking the snapshot on every call instead of only at offset 0
get_previous_snapshot_always(H, current_input) ==
    IF H.history = <<>> THEN [H |-> H, ret |-> NoEntry]
    ELSE LET H1 == [H EXCEPT !.original_input = current_input]
         IN  IF H1.position < Len(H1.history)
             THEN LET H2 == [H1 EXCEPT !.position = H1.position + 1]
                  IN  [H |-> H2, ret |-> Entry(FromEnd(H2, H2.position))]
             ELSE [H |-> H1, ret |-> NoEntry]

\* get_previous starting over at the newest entry once the oldest is passed
get_previous_clamp_resets(H, current_input) ==
    IF H.history = <<>> THEN [H |-> H, ret |-> NoEntry]
    ELSE LET H1 == IF H.position = 0
                   THEN [H EXCEPT !.original_input = current_input]
                   ELSE H
         IN  IF H1.position < Len(H1.history)
             THEN LET H2 == [H1 EXCEPT !.position = H1.position + 1]
                  IN  [H |-> H2, ret |-> Entry(FromEnd(H2, H2.position))]
             ELSE [H |-> [H1 EXCEPT !.position = 0], ret |-> NoEntry]

get_previous(H, current_input) ==
    IF H.history = <<>> THEN [H |-> H, ret |-> NoEntry]
    ELSE LET H1 == IF H.position = 0
                   THEN [H EXCEPT !.original_input = current_input]
                   ELSE H
         IN  IF H1.position < Len(H1.history)
             THEN LET H2 == [H1 EXCEPT !.position = H1.position + 1]
                  IN  [H |-> H2, ret |-> Entry(FromEnd(H2, H2.position))]
             ELSE [H |-> H1, ret |-> NoEntry]

get_next(H) ==
    IF H.position <= 0 THEN [H |-> H, ret |-> NoEntry]
    ELSE LET H1 == [H EXCEPT !.position = H.position - 1]
         IN  IF H1.position = 0
             THEN [H |-> H1, ret |-> Entry(H1.original_input)]
             ELSE [H |-> H1, ret |-> Entry(FromEnd(H1, H1.position))]

\* clear emptying the entries and leaving the navigation offset
clear_position_kept(H) == [H EXCEPT !.history = <<>>]

clear(H) == reset_position([H EXCEPT !.history = <<>>])

----------------------------------------------------------------------------
(* CommandValidator.parse_command, src/src/utils/validators.py *)

W_save == <<115, 97, 118, 101>>
W_SAVE == <<83, 65, 86, 69>>
W_help == <<104, 101, 108, 112>>
W_Help == <<72, 101, 108, 112>>
W_list == <<108, 105, 115, 116>>
W_new == <<110, 101, 119>>
W_model == <<109, 111, 100, 101, 108>>
W_hi == <<104, 105>>
W_test_json == <<116, 101, 115, 116, 46, 106, 115, 111, 110>>
W_x == <<120>>

NotParsed == [parsed |-> FALSE]

\* str.lower() on one character
LowerChar(c) == IF c \in 65..90 THEN c + 32 ELSE c

Lower(w) == [i \in 1..Len(w) |-> LowerChar(w[i])]

\* str.split(): the maximal runs of non-whitespace characters, in order
RECURSIVE Split(_)
Split(s) ==
    IF s = <<>> THEN <<>>
    ELSE IF IsSpace(s[Len(s)]) THEN Split(Pop(s))
    ELSE LET rest == Pop(s)
             words == Split(rest)
         IN  IF rest # <<>> /\ ~IsSpace(rest[Len(rest)])
             THEN [words EXCEPT ![Len(words)] = Append(@, s[Len(s)])]
             ELSE Append(words, <<s[Len(s)]>>)

\* ' '.join(args)
RECURSIVE JoinWithSpace(_)
JoinWithSpace(args) ==
    IF args = <<>> THEN <<>>
    ELSE IF Len(args) = 1 THEN args[1]
    ELSE args[1] \o <<SP>> \o JoinWithSpace(Tail(args))

valid_commands ==
    {<<104, 101, 108, 112>>, <<110, 101, 119>>, <<99, 108, 101, 97, 114>>, <<104, 105, 115, 116, 111, 114, 121>>, <<109, 111, 100, 101, 108>>,
     <<99, 111, 110, 102, 105, 103>>, <<115, 101, 116, 116, 105, 110, 103, 115>>, <<108, 105, 115, 116>>, <<116, 101, 109, 112, 108, 97, 116, 101>>}

parse_command(user_input) ==
    LET parts == Split(Strip(user_input)) IN
    IF parts = <<>> THEN [is_command |-> FALSE]
    ELSE LET command == Lower(parts[1])
             args == IF Len(parts) > 1 THEN Tail(parts) ELSE <<>>
         IN  [is_command |-> command \in valid_commands,
              command |-> command,
              args |-> args,
              raw_args |-> IF args # <<>> THEN JoinWithSpace(args) ELSE <<>>]

\* the lines handed to parse_command: a first word, alone or followed by words
\* (with single, double and trailing spaces), with or without a leading space,
\* and the blank lines
FirstWords == {W_save, W_SAVE, W_help, W_Help, W_list, W_new, W_model, W_hi}

Tails == {<<>>, <<SP>> \o W_test_json, <<SP, SP>> \o W_x \o <<SP>> \o W_test_json, <<SP>> \o W_x \o <<SP>>}

ParseLines ==
    {lead \o w \o tail : lead \in {<<>>, <<SP>>}, w \in FirstWords, tail \in Tails}
        \cup {<<>>, <<SP>>}

----------------------------------------------------------------------------
(* TerminalInputHandler: helpers that return a value to the read loop *)

NoItem == "none"
Unpaired == [on |-> FALSE]
NoRetry == [on |-> FALSE]
NoResult == [kind |-> "none", text |-> <<>>]
Null == [kind |-> "null", text |-> <<>>]
Text(t) == [kind |-> "text", text |-> t]
Interrupt == [kind |-> "interrupt", text |-> <<>>]

\* _clear_current_input_and_redraw repainting without emptying the buffer
_clear_current_input_and_redraw_kept(current) == current

\* _clear_current_input_and_redraw: a fresh empty buffer
_clear_current_input_and_redraw(current) == <<>>

\* _replace_buffer_with_history keeping the typed text when the entry is empty
_replace_buffer_with_history_empty_kept(current, history_entry) ==
    IF history_entry # <<>> THEN history_entry ELSE current

\* _replace_buffer_with_history: list(history_entry) if history_entry else []
_replace_buffer_with_history(current, history_entry) ==
    IF history_entry # <<>> THEN history_entry ELSE <<>>

_reset_ctrl_c_state_and_restore_help == FALSE

_reset_esc_state_and_restore_help == FALSE

RECURSIVE HistChars(_)
HistChars(h) == IF h = <<>> THEN 0 ELSE Len(Head(h)) + HistChars(Tail(h))

----------------------------------------------------------------------------
(* The terminal as sys.stdout.write drives it: rows of cells and a cursor *)

GT == 62
HELP_MARK == 1000         \* the help line with the history keys (lines 310 and 381)
HELP_SHORT_MARK == 1001   \* the help line written by Ctrl+J (line 206)
QUIT_MARK == 1002         \* "Ctrl+C again to quit"
ESC_MARK == 1003          \* "Hit Esc again to start over"

HelperMarks == {HELP_MARK, HELP_SHORT_MARK, QUIT_MARK, ESC_MARK}

\* what a write is made of: a character, or a control sequence
Ch(c) == [op |-> "char", n |-> c]
LineFeed == [op |-> "lf", n |-> 0]
Return == [op |-> "cr", n |-> 0]
BackSp == [op |-> "bs", n |-> 0]
EraseLine == [op |-> "el2", n |-> 0]
EraseToEnd == [op |-> "el0", n |-> 0]
Up1 == [op |-> "cuu", n |-> 1]
Col(n) == [op |-> "cha", n |-> n]

\* the characters of a text as written by sys.stdout.write
Chars(s) == [i \in 1..Len(s) |-> IF s[i] = LF THEN LineFeed ELSE Ch(s[i])]

\* ">> "
PromptMarker == <<Ch(GT), Ch(GT), Ch(SP)>>

Unfollowed == [rows |-> <<>>, r |-> 0, c |-> 0]

\* the cursor at the left margin of a fresh row
FreshScreen == [rows |-> << <<>> >>, r |-> 1, c |-> 1]

RECURSIVE TrimBlanks(_)
TrimBlanks(row) ==
    IF row = <<>> THEN <<>>
    ELSE IF row[Len(row)] = SP THEN TrimBlanks(Pop(row)) ELSE row

\* rows below the cursor that show nothing are not kept
RECURSIVE TrimRows(_, _)
TrimRows(rows, r) ==
    IF Len(rows) > r /\ rows[Len(rows)] = <<>> THEN TrimRows(Pop(rows), r) ELSE rows

SetCell(row, c, x) ==
    TrimBlanks([i \in 1..(IF c > Len(row) THEN c ELSE Len(row)) |->
                   IF i = c THEN x ELSE IF i <= Len(row) THEN row[i] ELSE SP])

\* one character or control sequence reaching the terminal; with output
\* processing on (cooked mode) a line feed also returns to the left margin
Apply(scr, w, mode) ==
    CASE w.op = "char" ->
             [scr EXCEPT !.rows[scr.r] = SetCell(@, scr.c, w.n), !.c = @ + 1]
      [] w.op = "lf" ->
             [rows |-> IF scr.r = Len(scr.rows) THEN Append(scr.rows, <<>>) ELSE scr.rows,
              r |-> scr.r + 1,
              c |-> IF mode = "raw" THEN scr.c ELSE 1]
      [] w.op = "cr" -> [scr EXCEPT !.c = 1]
      [] w.op = "bs" -> [scr EXCEPT !.c = IF @ > 1 THEN @ - 1 ELSE 1]
      [] w.op = "el2" -> [scr EXCEPT !.rows[scr.r] = <<>>]
      [] w.op = "el0" -> [scr EXCEPT !.rows[scr.r] = TrimBlanks(SubSeq(@, 1, scr.c - 1))]
      [] w.op = "cuu" -> [scr EXCEPT !.r = IF @ > 1 THEN @ - 1 ELSE 1]
      [] w.op = "cha" -> [scr EXCEPT !.c = w.n]

RECURSIVE Emit(_, _, _)
Emit(scr, ws, mode) ==
    IF ws = <<>> THEN [scr EXCEPT !.rows = TrimRows(@, scr.r)]
    ELSE Emit(Apply(scr, Head(ws), mode), Tail(ws), mode)

\* The writes ws reach a terminal in mode `mode`, starting from scr.
Shows(scr, ws, mode) ==
    IF screen.r = 0 THEN UNCHANGED screen
    ELSE LET after == Emit(scr, ws, mode)
         IN  /\ Len(after.rows) <= MaxRows
             /\ screen' = after

Paint(ws) == Shows(screen, ws, "raw")

\* the editing area ends with the call
ScreenLeft == screen' = IF screen.r = 0 THEN screen ELSE FreshScreen

\* number of lines of a text: current_text.count('\n') + 1
RECURSIVE CountNewlines(_)
CountNewlines(s) ==
    IF s = <<>> THEN 0
    ELSE (IF Head(s) = LF THEN 1 ELSE 0) + CountNewlines(Tail(s))

\* _print_help_message, lines 305-317, with self._current_buffer = cur
_print_help_message(cur) ==
    <<LineFeed, Col(1), EraseLine, Ch(HELP_MARK), Up1, Col(4 + Len(LastLine(cur)))>>

\* _show_esc_reset_message, lines 389-399
_show_esc_reset_message(cur) ==
    <<LineFeed, Col(1), EraseLine, Ch(ESC_MARK), Up1, Col(4 + Len(LastLine(cur)))>>

\* what _reset_ctrl_c_state_and_restore_help writes, lines 377-386
RestoreHelpAfterCtrlC(cur) ==
    <<LineFeed, Col(1), EraseLine, Ch(HELP_MARK), Up1, Col(Len(<<GT, GT, SP>> \o cur) + 1)>>

\* the first Ctrl+C, lines 123-128
QuitWarning(buf) ==
    <<LineFeed, Col(1), EraseLine, Ch(QUIT_MARK), Up1, Col(Len(<<GT, GT, SP>> \o buf) + 1)>>

\* for i in range(lines): "\r\033[2K", and "\033[1A" between lines
RECURSIVE ClearLinesUpward(_)
ClearLinesUpward(lines) ==
    IF lines <= 1 THEN <<Return, EraseLine>>
    ELSE <<Return, EraseLine, Up1>> \o ClearLinesUpward(lines - 1)

\* what _clear_current_input_and_redraw writes, lines 325-342
ClearAndRedraw(current) ==
    <<LineFeed, EraseLine, Up1>> \o ClearLinesUpward(CountNewlines(current) + 1)
        \o PromptMarker \o _print_help_message(<<>>)

\* what _replace_buffer_with_history writes, lines 344-375
ReplaceAndRedraw(current, history_entry) ==
    <<LineFeed, EraseLine, Up1>> \o ClearLinesUpward(CountNewlines(current) + 1)
        \o PromptMarker \o Chars(history_entry) \o _print_help_message(history_entry)

\* lines 199-208: Ctrl+J opening a new prompt row
NewPromptRow ==
    <<LineFeed, EraseLine, Up1, Return, LineFeed>> \o PromptMarker
        \o <<LineFeed, Col(1), EraseLine, Ch(HELP_SHORT_MARK), Up1, Col(4)>>

\* lines 225-235: Backspace over a newline; buf is the buffer after the pop
JoinPreviousRow(buf) ==
    <<LineFeed, EraseLine, Up1, Return, EraseLine, Up1, Col(4 + Len(LastLine(buf)))>>
        \o _print_help_message(buf)

\* what Backspace writes, lines 215-244
BackspaceWrites(buf) ==
    IF buf = <<>> THEN <<>>
    ELSE IF buf[Len(buf)] = LF \/ Len(LastLine(buf)) = 0
         THEN IF buf[Len(buf)] = LF THEN JoinPreviousRow(Pop(buf)) ELSE <<>>
         ELSE <<BackSp, Ch(SP), BackSp>>

\* lines 132-141: the helper row repainted when a latch is dropped by key ch
LatchResetWrites(ch) ==
    (IF ctrl_c_pressed_once THEN RestoreHelpAfterCtrlC(current_buffer) ELSE <<>>)
        \o (IF esc_reset_pending /\ ch # ESC
            THEN _print_help_message(IF ctrl_c_pressed_once THEN buffer ELSE current_buffer)
            ELSE <<>>)

----------------------------------------------------------------------------
(* Session: initial state and call entry *)

Init ==
    /\ pc = "idle"
    /\ buffer = <<>>
    /\ ctrl_c_pressed_once = FALSE
    /\ esc_reset_pending = FALSE
    /\ pending_esc = FALSE
    /\ input_history = InputHistory(100)
    /\ current_buffer = <<>>
    /\ term_mode = "cooked"
    /\ old_settings = "cooked"
    /\ raw_entered = FALSE
    /\ exit_kind = "none"
    /\ result = NoResult
    /\ restores = 0
    /\ lastByte = NoByte
    /\ lastEvent = "None"
    /\ opening = "start"
    /\ keys = Bytes
    /\ screen = Unfollowed
    /\ h_ret = NoEntry
    /\ h_live = <<>>
    /\ h_back = 0
    /\ h_fwd = 0
    /\ h_phase = "none"
    /\ h_accepted = <<>>
    /\ h_call = NoCall
    /\ p_input = <<>>
    /\ p_result = NotParsed
    /\ source = "open"
    /\ selected = NoItem
    /\ gptcli = Unpaired
    /\ retry = NoRetry

\* `opening` after one more byte: the bytes read so far in this call are
\* Ctrl+C, Ctrl+C x (x not Ctrl+C), Ctrl+C x Ctrl+C, ESC, ESC [, ESC [ A, one
\* character, one character then Backspace, these then a slash, one character
\* then ESC, ESC [, ESC [ B, or none of these
OpeningAfter(ch) ==
    CASE opening = "start" /\ ch = CTRL_C -> "ctrlc"
      [] opening = "start" /\ ch = ESC -> "esc"
      [] opening = "ctrlc" /\ ch # CTRL_C -> "ctrlc-x"
      [] opening = "ctrlc-x" /\ ch = CTRL_C -> "ctrlc-x-ctrlc"
      [] opening = "esc" /\ ch = LBRACKET -> "esc-bracket"
      [] opening = "esc-bracket" /\ ch = UP -> "esc-bracket-up"
      [] opening = "start" /\ ch \in {SP, UP, DOWN, LBRACKET} -> "char"
      [] opening = "char" /\ ch \in {DEL, BS} -> "char-erased"
      [] opening = "char-erased" /\ ch = SLASH -> "char-erased-slash"
      [] opening = "char" /\ ch = ESC -> "char-esc"
      [] opening = "char-esc" /\ ch = LBRACKET -> "char-esc-bracket"
      [] opening = "char-esc-bracket" /\ ch = DOWN -> "char-esc-bracket-down"
      [] OTHER -> "off"

----------------------------------------------------------------------------
(* GPTCLI.get_multiline_input, src/src/cli.py lines 96-295: the second editor,
   fed the bytes that TerminalInputHandler.get_multiline_input reads *)

\* no call of the second editor in progress
GPTCLI_idle ==
    [on |-> TRUE, buffer |-> <<>>, ctrl_c_pressed_once |-> FALSE,
     outcome |-> "idle", escaped |-> FALSE]

\* cli.py lines 106-116: the locals at the start of a call
GPTCLI_enter(prefill_text) ==
    [on |-> TRUE, buffer |-> prefill_text, ctrl_c_pressed_once |-> FALSE,
     outcome |-> "editing", escaped |-> FALSE]

\* cli.py line 202: `if buffer and ''.join(buffer).strip()`
GPTCLI_newline_allowed(buf) == buf # <<>> /\ Strip(buf) # <<>>

\* cli.py lines 134-264: one pass of the loop body over a byte other than Escape
GPTCLI_step(g, ch) ==
    IF ch = CTRL_C
    THEN IF g.ctrl_c_pressed_once
         THEN [g EXCEPT !.outcome = "interrupt"]
         ELSE [g EXCEPT !.ctrl_c_pressed_once = TRUE]
    ELSE LET g1 == [g EXCEPT !.ctrl_c_pressed_once = FALSE] IN
         IF ch = SLASH /\ g1.buffer = <<>>
         THEN [g1 EXCEPT !.outcome = "palette"]
         ELSE IF ch = CR
         THEN IF g1.buffer = <<>> \/ Strip(g1.buffer) = <<>>
              THEN [g1 EXCEPT !.buffer = <<>>]
              ELSE [g1 EXCEPT !.outcome = "submitted"]
         ELSE IF ch = LF
         THEN IF GPTCLI_newline_allowed(g1.buffer)
              THEN [g1 EXCEPT !.buffer = Append(g1.buffer, LF)]
              ELSE g1
         ELSE IF ch \in {DEL, BS}
         THEN IF g1.buffer # <<>> THEN [g1 EXCEPT !.buffer = Pop(g1.buffer)] ELSE g1
         ELSE [g1 EXCEPT !.buffer = Append(g1.buffer, ch)]

\* the two editors have been seen apart in this call; the second is followed no further
GPTCLI_apart ==
    [on |-> TRUE, buffer |-> <<>>, ctrl_c_pressed_once |-> FALSE,
     outcome |-> "apart", escaped |-> FALSE]

\* The second editor after the byte ch. It is followed while it is editing the
\* same text as the first; an Escape byte ends the comparison for this call.
GPTCLI_follows(ch) ==
    IF ~gptcli.on \/ gptcli.escaped THEN gptcli
    ELSE IF gptcli.outcome # "editing" \/ gptcli.buffer # buffer THEN GPTCLI_apart
    ELSE IF ch = ESC
    THEN [GPTCLI_idle EXCEPT !.escaped = TRUE, !.outcome = "editing"]
    ELSE GPTCLI_step(gptcli, ch)

\* cli.py lines 172-185: the palette hook has returned without "exit", or raised
\* an Exception
GPTCLI_resumes ==
    IF gptcli.on /\ gptcli.outcome = "palette"
    THEN [gptcli EXCEPT !.outcome = "editing"]
    ELSE gptcli

----------------------------------------------------------------------------

\* The byte ch has been read by sys.stdin.read(1) and consumed as event ev.
Read(ch, ev) ==
    /\ source = "open"
    /\ gptcli' = GPTCLI_follows(ch)
    /\ lastByte' = ch
    /\ lastEvent' = ev
    /\ opening' = OpeningAfter(ch)

\* lines 26-43: latches and buffer at the start of a call
EnterCall ==
    /\ \E prefill_text \in Prefills :
          /\ buffer' = prefill_text
          /\ current_buffer' = prefill_text
    /\ ctrl_c_pressed_once' = FALSE
    /\ esc_reset_pending' = FALSE
    /\ pending_esc' = FALSE
    /\ exit_kind' = "none"
    /\ result' = NoResult
    /\ lastByte' = NoByte
    /\ lastEvent' = "None"
    /\ opening' = "start"
    /\ selected' = NoItem
    /\ gptcli' = IF gptcli.on THEN GPTCLI_enter(buffer') ELSE gptcli

\* get_multiline_input, lines 26-58, raw-mode setup succeeds
StartCall ==
    /\ pc = "idle"
    /\ EnterCall
    /\ old_settings' = term_mode
    /\ term_mode' = "raw"
    /\ raw_entered' = TRUE
    /\ restores' = 0
    /\ pc' = "read"
    /\ Shows(FreshScreen, PromptMarker \o _print_help_message(current_buffer'), "raw")
    /\ UNCHANGED <<input_history, walkVars, keys, parseVars,
                   sideVars>>

\* get_multiline_input, lines 26-50 and 285: termios or tcgetattr raises
RawSetupFails ==
    /\ pc = "idle"
    /\ EnterCall
    /\ raw_entered' = FALSE
    /\ restores' = 0
    /\ pc' = "fallback"
    /\ UNCHANGED screen
    /\ UNCHANGED <<input_history, term_mode, old_settings, walkVars, keys, parseVars,
                   sideVars>>

\* lines 26-53, 271-276 and 285: tty.setraw raises; the finally block writes the
\* settings just saved back before the fallback
SetRawFails ==
    /\ pc = "idle"
    /\ EnterCall
    /\ old_settings' = term_mode
    /\ term_mode' = old_settings'
    /\ raw_entered' = FALSE
    /\ restores' = 1
    /\ pc' = "fallback"
    /\ UNCHANGED screen
    /\ UNCHANGED <<input_history, walkVars, keys, parseVars,
                   sideVars>>

----------------------------------------------------------------------------
(* The read loop: bytes taken by the pending-Escape block, lines 65-108 *)

\* ESC then '[': the next read is the final byte of the sequence
PendingEscBracket ==
    /\ pc = "read"
    /\ pending_esc
    /\ Read(LBRACKET, "SeqOpen")
    /\ pending_esc' = FALSE
    /\ pc' = "final"
    /\ UNCHANGED screen
    /\ UNCHANGED <<buffer, ctrl_c_pressed_once, esc_reset_pending, input_history,
                   current_buffer, term_mode, old_settings, raw_entered, exit_kind,
                   result, restores,
                   walkVars, keys, parseVars,
                   sideVars, selected>>

\* esc_reset_pending after `if esc_reset_pending:` of lines 76, 88 and 94
EscAfterSequence ==
    IF esc_reset_pending THEN _reset_esc_state_and_restore_help
    ELSE esc_reset_pending

\* lines 71-79: ESC [ A
HistoryUp ==
    /\ pc = "final"
    /\ Read(UP, "HistoryUp")
    /\ LET r == get_previous(input_history, buffer) IN
       /\ input_history' = r.H
       /\ buffer' = IF r.ret.some
                    THEN _replace_buffer_with_history(buffer, r.ret.val)
                    ELSE buffer
       /\ current_buffer' = IF r.ret.some \/ esc_reset_pending
                            THEN buffer' ELSE current_buffer
       /\ Paint((IF r.ret.some THEN ReplaceAndRedraw(buffer, r.ret.val) ELSE <<>>)
                   \o (IF esc_reset_pending
                       THEN _print_help_message(IF r.ret.some THEN buffer' ELSE current_buffer)
                       ELSE <<>>))
    /\ esc_reset_pending' = EscAfterSequence
    /\ pc' = "read"
    /\ UNCHANGED <<ctrl_c_pressed_once, pending_esc, term_mode, old_settings,
                   raw_entered, exit_kind, result, restores,
                   walkVars, keys, parseVars,
                   sideVars, selected>>

\* lines 80-91: ESC [ B
HistoryDown ==
    /\ pc = "final"
    /\ Read(DOWN, "HistoryDown")
    /\ LET r == get_next(input_history) IN
       /\ input_history' = r.H
       /\ buffer' = IF r.ret.some
                    THEN _replace_buffer_with_history(buffer, r.ret.val)
                    ELSE _replace_buffer_with_history(buffer, <<>>)
       /\ current_buffer' = buffer'
       /\ Paint(ReplaceAndRedraw(buffer, IF r.ret.some THEN r.ret.val ELSE <<>>)
                   \o (IF esc_reset_pending THEN _print_help_message(buffer') ELSE <<>>))
    /\ esc_reset_pending' = EscAfterSequence
    /\ pc' = "read"
    /\ UNCHANGED <<ctrl_c_pressed_once, pending_esc, term_mode, old_settings,
                   raw_entered, exit_kind, result, restores,
                   walkVars, keys, parseVars,
                   sideVars, selected>>

\* lines 92-97: ESC [ x for any other x
SequenceIgnored ==
    /\ pc = "final"
    /\ \E final_ch \in keys \ {UP, DOWN} : Read(final_ch, "Ignored")
    /\ esc_reset_pending' = EscAfterSequence
    /\ current_buffer' = IF esc_reset_pending THEN buffer ELSE current_buffer
    /\ pc' = "read"
    /\ Paint(IF esc_reset_pending THEN _print_help_message(current_buffer) ELSE <<>>)
    /\ UNCHANGED <<buffer, ctrl_c_pressed_once, pending_esc, input_history,
                   term_mode, old_settings, raw_entered, exit_kind, result, restores,
                   walkVars, keys, parseVars,
                   sideVars, selected>>

\* lines 101-107: ESC right after ESC with the reset hint showing
DoubleEscClear ==
    /\ pc = "read"
    /\ pending_esc
    /\ has_content(buffer) /\ esc_reset_pending
    /\ Read(ESC, "EscapeConfirm")
    /\ pending_esc' = FALSE
    /\ buffer' = _clear_current_input_and_redraw(buffer)
    /\ current_buffer' = buffer'
    /\ esc_reset_pending' = FALSE
    /\ Paint(ClearAndRedraw(buffer))
    /\ UNCHANGED <<pc, ctrl_c_pressed_once, input_history, term_mode, old_settings,
                   raw_entered, exit_kind, result, restores,
                   walkVars, keys, parseVars,
                   sideVars, selected>>

\* The byte ch is not consumed by the pending-Escape block and reaches line 110.
FallsThrough(ch) ==
    /\ pc = "read"
    /\ ~(pending_esc /\ ch = LBRACKET)
    /\ ~(pending_esc /\ ch = ESC /\ has_content(buffer) /\ esc_reset_pending)

----------------------------------------------------------------------------
(* Ctrl+C, lines 110-129 *)

CtrlCArm ==
    /\ FallsThrough(CTRL_C)
    /\ ~ctrl_c_pressed_once
    /\ Read(CTRL_C, "InterruptFirst")
    /\ pending_esc' = FALSE
    /\ ctrl_c_pressed_once' = TRUE
    /\ Paint(QuitWarning(buffer))
    /\ UNCHANGED <<pc, buffer, esc_reset_pending, input_history, current_buffer,
                   term_mode, old_settings, raw_entered, exit_kind, result, restores,
                   walkVars, keys, parseVars,
                   sideVars, selected>>

\* line 114: termios.tcsetattr(fd, termios.TCSADRAIN, old_settings)
RestoredBeforeRaise == old_settings

CtrlCQuit ==
    /\ FallsThrough(CTRL_C)
    /\ ctrl_c_pressed_once
    /\ Read(CTRL_C, "InterruptConfirm")
    /\ pending_esc' = FALSE
    /\ term_mode' = RestoredBeforeRaise
    /\ restores' = restores + 1
    /\ exit_kind' = "interrupt"
    /\ pc' = "unwind"
    /\ Shows(screen, <<LineFeed, EraseLine, Up1, Return>>, RestoredBeforeRaise)
    /\ UNCHANGED <<buffer, ctrl_c_pressed_once, esc_reset_pending, input_history,
                   current_buffer, old_settings, raw_entered, result, walkVars, keys, parseVars,
                   sideVars, selected>>

----------------------------------------------------------------------------
(* Latch resets shared by every other key, lines 131-141 *)

\* ctrl_c_pressed_once after lines 132-135
\* the Ctrl+C latch surviving another key
CtrlCAfterReset_latch_kept == ctrl_c_pressed_once

CtrlCAfterReset ==
    IF ctrl_c_pressed_once THEN _reset_ctrl_c_state_and_restore_help
    ELSE ctrl_c_pressed_once

\* esc_reset_pending after lines 138-141
EscAfterReset(ch) ==
    IF esc_reset_pending /\ ch # ESC THEN _reset_esc_state_and_restore_help
    ELSE esc_reset_pending

\* self._current_buffer after lines 132-141
CurrentAfterReset(ch) ==
    IF ctrl_c_pressed_once \/ (esc_reset_pending /\ ch # ESC)
    THEN buffer ELSE current_buffer

\* A byte other than Ctrl+C has reached line 131 and is consumed as event ev.
Dispatched(ch, ev) ==
    /\ FallsThrough(ch)
    /\ ch # CTRL_C
    /\ Read(ch, ev)
    /\ ctrl_c_pressed_once' = CtrlCAfterReset

----------------------------------------------------------------------------
(* Command palette, lines 143-170 *)

\* line 146: termios.tcsetattr(fd, termios.TCSADRAIN, old_settings)
SuspendedForHook == old_settings

\* CommandPalette._register_default_commands: the items a user can select
PaletteItems == {"exit", "status"}

\* How the action of an item ends. _exit_app raises KeyboardInterrupt; any
\* other action returns, raises an Exception, or is interrupted by the user.
ActionOutcomes(item) ==
    IF item = "exit" THEN {"KeyboardInterrupt"}
    ELSE {"returns", "Exception", "KeyboardInterrupt"}

\* execute_command catching every exception, KeyboardInterrupt included
execute_command_catches_all(outcome) == "returns"

\* CommandPalette.execute_command: `except Exception` lets KeyboardInterrupt through
execute_command(outcome) ==
    IF outcome = "Exception" THEN "returns" ELSE outcome

\* GPTCLI._open_command_palette with palette.show() returning selected_item
\* (NoItem: cancelled) and the item's action ending in outcome
_open_command_palette(selected_item, outcome) ==
    IF selected_item = NoItem THEN "continue"
    ELSE IF execute_command(outcome) = "KeyboardInterrupt" THEN "KeyboardInterrupt"
    ELSE IF selected_item = "exit" THEN "exit"
    ELSE "continue"

PaletteOpen ==
    /\ buffer = <<>>
    /\ Dispatched(SLASH, "PaletteTrigger")
    /\ pending_esc' = FALSE
    /\ esc_reset_pending' = EscAfterReset(SLASH)
    /\ current_buffer' = CurrentAfterReset(SLASH)
    /\ term_mode' = SuspendedForHook
    /\ restores' = restores + 1
    /\ pc' = "palette"
    /\ Paint(LatchResetWrites(SLASH) \o <<Return, EraseToEnd>>)
    /\ UNCHANGED <<buffer, input_history, old_settings, raw_entered, exit_kind,
                   result, walkVars, keys, parseVars,
                   sideVars, selected>>

\* the terminal left in cooked mode after the hook has returned
ResumedAfterHook_skipped == term_mode

\* line 158: tty.setraw(fd)
ResumedAfterHook == "raw"

\* self.cli._open_command_palette() returns anything but "exit": lines 157-162
PaletteContinue ==
    /\ pc = "palette"
    /\ term_mode' = ResumedAfterHook
    /\ restores' = 0
    /\ pc' = "read"
    /\ gptcli' = GPTCLI_resumes
    /\ Paint(PromptMarker \o Chars(buffer) \o _print_help_message(current_buffer))
    /\ UNCHANGED <<buffer, ctrl_c_pressed_once, esc_reset_pending, pending_esc,
                   input_history, current_buffer, old_settings, raw_entered,
                   exit_kind, result, traceVars, walkVars, keys, parseVars,
                   sideVars, selected>>

\* the handler of a hook fault leaving the terminal in cooked mode
ResumedAfterHookFault_skipped == term_mode

\* line 165: tty.setraw(fd)
ResumedAfterHookFault == "raw"

\* self.cli._open_command_palette() raises an Exception: lines 163-169
PaletteFault ==
    /\ pc = "palette"
    /\ term_mode' = ResumedAfterHookFault
    /\ restores' = 0
    /\ pc' = "read"
    /\ gptcli' = GPTCLI_resumes
    /\ lastEvent' = "PaletteFault"
    /\ Paint(PromptMarker \o Chars(buffer) \o _print_help_message(current_buffer))
    /\ UNCHANGED <<buffer, ctrl_c_pressed_once, esc_reset_pending, pending_esc,
                   input_history, current_buffer, old_settings, raw_entered,
                   exit_kind, result, lastByte, opening, walkVars, keys, parseVars,
                   sideVars, selected>>

\* self.cli._open_command_palette() raises KeyboardInterrupt (the palette's exit
\* command does), which no `except Exception` catches
PaletteInterrupt ==
    /\ pc = "palette"
    /\ \E selected_item \in PaletteItems :
          \E outcome \in ActionOutcomes(selected_item) :
             /\ _open_command_palette(selected_item, outcome) = "KeyboardInterrupt"
             /\ selected' = selected_item
    /\ exit_kind' = "hook_interrupt"
    /\ pc' = "unwind"
    /\ UNCHANGED screen
    /\ UNCHANGED <<buffer, ctrl_c_pressed_once, esc_reset_pending, pending_esc,
                   input_history, current_buffer, term_mode, old_settings,
                   raw_entered, result, restores, traceVars, walkVars, keys, parseVars,
                   sideVars, gptcli>>

\* self.cli._open_command_palette() returns "exit": line 155 leaves through finally.
\* The hook is a method of whatever object the handler was built with (NoItem);
\* GPTCLI's returns "exit" only for an exit item whose action has returned.
PaletteExit ==
    /\ pc = "palette"
    /\ selected' \in {NoItem} \cup
                     {it \in PaletteItems :
                         \E outcome \in ActionOutcomes(it) :
                            _open_command_palette(it, outcome) = "exit"}
    /\ exit_kind' = "palette_exit"
    /\ pc' = "unwind"
    /\ UNCHANGED screen
    /\ UNCHANGED <<buffer, ctrl_c_pressed_once, esc_reset_pending, pending_esc,
                   input_history, current_buffer, term_mode, old_settings,
                   raw_entered, result, traceVars, restores,
                   walkVars, keys, parseVars,
                   sideVars, gptcli>>

----------------------------------------------------------------------------
(* Enter, Ctrl+J, Backspace, Escape, printable: lines 172-269 *)

\* lines 174-183: carriage return on an empty or whitespace-only buffer
EnterBlank ==
    /\ (buffer = <<>> \/ Strip(buffer) = <<>>)
    /\ Dispatched(CR, "EnterBlank")
    /\ pending_esc' = FALSE
    /\ esc_reset_pending' = EscAfterReset(CR)
    /\ current_buffer' = CurrentAfterReset(CR)
    /\ buffer' = <<>>
    /\ Paint(LatchResetWrites(CR) \o <<Return, EraseToEnd>> \o PromptMarker)
    /\ UNCHANGED <<pc, input_history, term_mode, old_settings, raw_entered,
                   exit_kind, result, restores,
                   walkVars, keys, parseVars,
                   sideVars, selected>>

\* lines 184-188: carriage return on a buffer with content leaves the loop
EnterSubmit ==
    /\ ~(buffer = <<>> \/ Strip(buffer) = <<>>)
    /\ HistChars(add_entry(input_history, buffer).history) <= MaxHistChars
    /\ Dispatched(CR, "Submit")
    /\ pending_esc' = FALSE
    /\ esc_reset_pending' = EscAfterReset(CR)
    /\ current_buffer' = CurrentAfterReset(CR)
    /\ exit_kind' = "submit"
    /\ pc' = "unwind"
    /\ Paint(LatchResetWrites(CR) \o <<LineFeed>>)
    /\ UNCHANGED <<buffer, input_history, term_mode, old_settings, raw_entered,
                   result, restores,
                   walkVars, keys, parseVars,
                   sideVars, selected>>

\* Ctrl+J appending a newline whatever the current line holds
NewlineAllowed_always(buf) == TRUE

\* lines 193-195: len(last_line_text) > 0
NewlineAllowed(buf) == Len(LastLine(buf)) > 0

\* lines 190-211: Ctrl+J with text on the current line
CtrlJ ==
    /\ NewlineAllowed(buffer)
    /\ Len(buffer) < MaxLen
    /\ Dispatched(LF, "NewlineInsert")
    /\ pending_esc' = FALSE
    /\ esc_reset_pending' = EscAfterReset(LF)
    /\ buffer' = Append(buffer, LF)
    /\ current_buffer' = buffer'
    /\ Paint(LatchResetWrites(LF) \o NewPromptRow)
    /\ UNCHANGED <<pc, input_history, term_mode, old_settings, raw_entered,
                   exit_kind, result, restores,
                   walkVars, keys, parseVars,
                   sideVars, selected>>

\* lines 190-195 and 210-211: Ctrl+J on an empty current line
CtrlJIgnored ==
    /\ ~NewlineAllowed(buffer)
    /\ Dispatched(LF, "NewlineIgnored")
    /\ pending_esc' = FALSE
    /\ esc_reset_pending' = EscAfterReset(LF)
    /\ current_buffer' = CurrentAfterReset(LF)
    /\ Paint(LatchResetWrites(LF))
    /\ UNCHANGED <<pc, buffer, input_history, term_mode, old_settings, raw_entered,
                   exit_kind, result, restores,
                   walkVars, keys, parseVars,
                   sideVars, selected>>

\* the buffer after lines 215-244
\* Backspace stopping at the start of a line, embedded newline included
AfterBackspace_line_start_kept(buf) ==
    IF buf = <<>> THEN buf
    ELSE IF buf[Len(buf)] = LF \/ Len(LastLine(buf)) = 0 THEN buf
    ELSE Pop(buf)

AfterBackspace(buf) ==
    IF buf = <<>> THEN buf
    ELSE IF buf[Len(buf)] = LF \/ Len(LastLine(buf)) = 0
         THEN IF buf[Len(buf)] = LF THEN Pop(buf) ELSE buf
         ELSE Pop(buf)

\* lines 213-244: Backspace / Delete
Backspace ==
    /\ \E ch \in {DEL, BS} : Dispatched(ch, "Backspace")
    /\ pending_esc' = FALSE
    /\ esc_reset_pending' = EscAfterReset(DEL)
    /\ buffer' = AfterBackspace(buffer)
    /\ current_buffer' = IF buffer' # buffer THEN buffer' ELSE CurrentAfterReset(DEL)
    /\ Paint(LatchResetWrites(DEL) \o BackspaceWrites(buffer))
    /\ UNCHANGED <<pc, input_history, term_mode, old_settings, raw_entered,
                   exit_kind, result, restores,
                   walkVars, keys, parseVars,
                   sideVars, selected>>

\* lines 246-260: first Escape on a buffer with content
EscapeArm ==
    /\ has_content(buffer)
    /\ ~EscAfterReset(ESC)
    /\ Dispatched(ESC, "EscapeArmFirst")
    /\ esc_reset_pending' = TRUE
    /\ current_buffer' = CurrentAfterReset(ESC)
    /\ pending_esc' = TRUE
    /\ Paint(LatchResetWrites(ESC) \o _show_esc_reset_message(CurrentAfterReset(ESC)))
    /\ UNCHANGED <<pc, buffer, input_history, term_mode, old_settings, raw_entered,
                   exit_kind, result, restores,
                   walkVars, keys, parseVars,
                   sideVars, selected>>

\* lines 246-260: Escape at the main dispatch with the reset hint showing
EscapeClear ==
    /\ has_content(buffer)
    /\ EscAfterReset(ESC)
    /\ Dispatched(ESC, "EscapeConfirm")
    /\ buffer' = _clear_current_input_and_redraw(buffer)
    /\ current_buffer' = buffer'
    /\ esc_reset_pending' = FALSE
    /\ pending_esc' = TRUE
    /\ Paint(LatchResetWrites(ESC) \o ClearAndRedraw(buffer))
    /\ UNCHANGED <<pc, input_history, term_mode, old_settings, raw_entered,
                   exit_kind, result, restores,
                   walkVars, keys, parseVars,
                   sideVars, selected>>

\* lines 246-260: Escape on a buffer without content
EscapeIdle ==
    /\ ~has_content(buffer)
    /\ Dispatched(ESC, "EscapeIdle")
    /\ esc_reset_pending' = EscAfterReset(ESC)
    /\ current_buffer' = CurrentAfterReset(ESC)
    /\ pending_esc' = TRUE
    /\ Paint(LatchResetWrites(ESC))
    /\ UNCHANGED <<pc, buffer, input_history, term_mode, old_settings, raw_entered,
                   exit_kind, result, restores,
                   walkVars, keys, parseVars,
                   sideVars, selected>>

\* the slash branch falling through to the last branch
ReachesAppend_slash_too(ch) == ch \notin {CTRL_C, CR, LF, DEL, BS, ESC}

\* The bytes that reach the last branch of the loop, lines 262-269.
ReachesAppend(ch) ==
    /\ ch \notin {CTRL_C, CR, LF, DEL, BS, ESC}
    /\ ~(ch = SLASH /\ buffer = <<>>)

Printable ==
    /\ Len(buffer) < MaxLen
    /\ \E ch \in keys :
          /\ ReachesAppend(ch)
          /\ Dispatched(ch, "Printable")
          /\ buffer' = Append(buffer, ch)
          /\ esc_reset_pending' = EscAfterReset(ch)
          /\ Paint(LatchResetWrites(ch) \o <<Ch(ch)>>)
    /\ pending_esc' = FALSE
    /\ input_history' = reset_position(input_history)
    /\ current_buffer' = buffer'
    /\ UNCHANGED <<pc, term_mode, old_settings, raw_entered, exit_kind, result,
                   restores,
                   walkVars, keys, parseVars,
                   sideVars, selected>>

----------------------------------------------------------------------------
(* Leaving the loop: finally block and what follows, lines 271-303 *)

\* The locals of get_multiline_input are gone once nothing reads them any more;
\* self._current_buffer is assigned again (line 43) before its next read.
DropLocals ==
    /\ buffer' = <<>>
    /\ current_buffer' = <<>>
    /\ ctrl_c_pressed_once' = FALSE
    /\ esc_reset_pending' = FALSE
    /\ pending_esc' = FALSE
    /\ lastByte' = NoByte
    /\ lastEvent' = "None"
    /\ opening' = "start"
    /\ gptcli' = IF gptcli.on THEN GPTCLI_idle ELSE gptcli

\* The history when an unexpected exception leaves the inner try block: as it
\* was (a failed read), or as the handler left it before its display write failed.
FaultHistories ==
    IF pc = "final"
    THEN {input_history, get_next(input_history).H}
         \cup (IF get_previous(input_history, buffer).ret.some
               THEN {get_previous(input_history, buffer).H} ELSE {})
    ELSE {input_history, reset_position(input_history)}

Fault ==
    /\ pc \in {"read", "final"}
    /\ \E H \in FaultHistories : input_history' = H
    /\ exit_kind' = "fault"
    /\ pc' = "unwind"
    /\ DropLocals
    /\ ScreenLeft
    /\ UNCHANGED <<term_mode, old_settings, raw_entered, result,
                   restores,
                   walkVars, keys, parseVars,
                   sideVars, selected>>

\* lines 271-276: termios.tcsetattr(fd, termios.TCSADRAIN, old_settings)
\* the finally block leaving the terminal as it is
RestoredInFinally_skipped == term_mode

RestoredInFinally == old_settings

\* finally, then lines 296-303
FinallySubmit ==
    /\ pc = "unwind"
    /\ exit_kind = "submit"
    /\ term_mode' = RestoredInFinally
    /\ restores' = restores + 1
    /\ LET content == buffer IN
       IF Strip(content) = <<>>
       THEN /\ result' = Null
            /\ UNCHANGED input_history
       ELSE /\ input_history' = add_entry(input_history, content)
            /\ result' = Text(content)
    /\ pc' = "idle"
    /\ exit_kind' = "none"
    /\ DropLocals
    /\ ScreenLeft
    /\ UNCHANGED <<old_settings, raw_entered, walkVars, keys, parseVars,
                   sideVars, selected>>

\* finally, then `return None` of line 155
FinallyPaletteExit ==
    /\ pc = "unwind"
    /\ exit_kind = "palette_exit"
    /\ term_mode' = RestoredInFinally
    /\ restores' = restores + 1
    /\ result' = Null
    /\ pc' = "idle"
    /\ exit_kind' = "none"
    /\ DropLocals
    /\ ScreenLeft
    /\ UNCHANGED <<input_history, old_settings, raw_entered, walkVars, keys, parseVars,
                   sideVars, selected>>

\* finally, then lines 278-284; the run loop of cli.py breaks on KeyboardInterrupt
FinallyInterrupt ==
    /\ pc = "unwind"
    /\ exit_kind \in {"interrupt", "hook_interrupt"}
    /\ term_mode' = RestoredInFinally
    /\ restores' = restores + 1
    /\ result' = Interrupt
    /\ pc' = "exited"
    /\ exit_kind' = "none"
    /\ DropLocals
    /\ ScreenLeft
    /\ UNCHANGED <<input_history, old_settings, raw_entered, walkVars, keys, parseVars,
                   sideVars, selected>>

\* finally, then `except Exception` of line 285
FinallyFault ==
    /\ pc = "unwind"
    /\ exit_kind = "fault"
    /\ term_mode' = RestoredInFinally
    /\ restores' = restores + 1
    /\ pc' = "fallback"
    /\ UNCHANGED screen
    /\ UNCHANGED <<buffer, ctrl_c_pressed_once, esc_reset_pending, pending_esc,
                   input_history, current_buffer, old_settings, raw_entered,
                   exit_kind, result, traceVars, walkVars, keys, parseVars,
                   sideVars, selected, gptcli>>

\* the fallback returning whatever input() gave, the empty line included
FallbackResult_unchecked(line) == Text(line)

\* lines 289-291: None for an empty line, else the line
FallbackResult(line) == IF line = <<>> THEN Null ELSE Text(line)

\* lines 287-294: input(">> ") returns a line, or raises an Exception
FallbackInput ==
    /\ pc = "fallback"
    /\ \/ \E line \in FallbackLines : result' = FallbackResult(line)
       \/ result' = Null
    /\ pc' = "idle"
    /\ UNCHANGED screen
    /\ UNCHANGED <<buffer, ctrl_c_pressed_once, esc_reset_pending, pending_esc,
                   input_history, current_buffer, term_mode, old_settings,
                   raw_entered, exit_kind, traceVars, restores,
                   walkVars, keys, parseVars,
                   sideVars, selected, gptcli>>

\* lines 287-288: input(">> ") raises KeyboardInterrupt, which is not an Exception
FallbackInterrupt ==
    /\ pc = "fallback"
    /\ result' = Interrupt
    /\ pc' = "exited"
    /\ UNCHANGED screen
    /\ UNCHANGED <<buffer, ctrl_c_pressed_once, esc_reset_pending, pending_esc,
                   input_history, current_buffer, term_mode, old_settings,
                   raw_entered, exit_kind, traceVars, restores,
                   walkVars, keys, parseVars,
                   sideVars, selected, gptcli>>

Next ==
    \/ StartCall
    \/ RawSetupFails
    \/ SetRawFails
    \/ PendingEscBracket
    \/ HistoryUp
    \/ HistoryDown
    \/ SequenceIgnored
    \/ DoubleEscClear
    \/ CtrlCArm
    \/ CtrlCQuit
    \/ PaletteOpen
    \/ PaletteContinue
    \/ PaletteFault
    \/ PaletteInterrupt
    \/ PaletteExit
    \/ EnterBlank
    \/ EnterSubmit
    \/ CtrlJ
    \/ CtrlJIgnored
    \/ Backspace
    \/ EscapeArm
    \/ EscapeClear
    \/ EscapeIdle
    \/ Printable
    \/ Fault
    \/ FinallySubmit
    \/ FinallyPaletteExit
    \/ FinallyInterrupt
    \/ FinallyFault
    \/ FallbackInput
    \/ FallbackInterrupt

Spec == Init /\ [][Next]_vars

----------------------------------------------------------------------------
(* The keyboard reaching end of input: sys.stdin.read(1) returns '' from then on *)

\* the terminal hangs up while the call is reading
SourceEnds ==
    /\ pc \in {"read", "final"}
    /\ source = "open"
    /\ source' = "ended"
    /\ UNCHANGED <<pc, buffer, ctrl_c_pressed_once, esc_reset_pending, pending_esc,
                   input_history, current_buffer, term_mode, old_settings,
                   raw_entered, exit_kind, result, restores, traceVars, screen,
                   walkVars, keys, parseVars, selected, gptcli, retry>>

\* line 61: sys.stdin.read(1) returns '' at once
EmptyRead ==
    /\ pc = "read"
    /\ source = "ended"
    /\ pc' = "empty"
    /\ lastByte' = NoByte
    /\ lastEvent' = "EmptyRead"
    /\ UNCHANGED <<buffer, ctrl_c_pressed_once, esc_reset_pending, pending_esc,
                   input_history, current_buffer, term_mode, old_settings,
                   raw_entered, exit_kind, result, restores, opening, screen,
                   walkVars, keys, parseVars, sideVars, selected, gptcli>>

\* lines 62-63: `if not ch: continue` goes back to the read of line 61
ContinueAfterEmptyRead ==
    /\ pc = "empty"
    /\ pc' = "read"
    /\ UNCHANGED <<buffer, ctrl_c_pressed_once, esc_reset_pending, pending_esc,
                   input_history, current_buffer, term_mode, old_settings,
                   raw_entered, exit_kind, result, restores, traceVars, screen,
                   walkVars, keys, parseVars, sideVars, selected, gptcli>>

\* lines 70 and 92-97: final_ch is '' and takes the branch of the other sequences
EmptyFinalRead ==
    /\ pc = "final"
    /\ source = "ended"
    /\ lastByte' = NoByte
    /\ lastEvent' = "Ignored"
    /\ esc_reset_pending' = EscAfterSequence
    /\ current_buffer' = IF esc_reset_pending THEN buffer ELSE current_buffer
    /\ pc' = "read"
    /\ Paint(IF esc_reset_pending THEN _print_help_message(current_buffer) ELSE <<>>)
    /\ UNCHANGED <<buffer, ctrl_c_pressed_once, pending_esc, input_history,
                   term_mode, old_settings, raw_entered, exit_kind, result, restores,
                   opening, walkVars, keys, parseVars, sideVars, selected, gptcli>>

NextEof ==
    \/ Next
    \/ SourceEnds
    \/ EmptyRead
    \/ ContinueAfterEmptyRead
    \/ EmptyFinalRead

\* The steps the thread of the call takes on its own: a read that returns at
\* once and the finally block. Keys, the hook's return and faults are not owed.
OwnSteps ==
    \/ EmptyRead
    \/ ContinueAfterEmptyRead
    \/ EmptyFinalRead
    \/ FinallySubmit
    \/ FinallyPaletteExit
    \/ FinallyInterrupt
    \/ FinallyFault

SpecEof == Init /\ [][NextEof]_vars /\ WF_vars(OwnSteps)

\* a session whose keyboard also sends the control byte
InitKeys ==
    /\ pc = "idle"
    /\ buffer = <<>>
    /\ ctrl_c_pressed_once = FALSE
    /\ esc_reset_pending = FALSE
    /\ pending_esc = FALSE
    /\ input_history = InputHistory(100)
    /\ current_buffer = <<>>
    /\ term_mode = "cooked"
    /\ old_settings = "cooked"
    /\ raw_entered = FALSE
    /\ exit_kind = "none"
    /\ result = NoResult
    /\ restores = 0
    /\ lastByte = NoByte
    /\ lastEvent = "None"
    /\ opening = "start"
    /\ keys = BytesWithControl
    /\ screen = Unfollowed
    /\ h_ret = NoEntry
    /\ h_live = <<>>
    /\ h_back = 0
    /\ h_fwd = 0
    /\ h_phase = "none"
    /\ h_accepted = <<>>
    /\ h_call = NoCall
    /\ p_input = <<>>
    /\ p_result = NotParsed
    /\ source = "open"
    /\ selected = NoItem
    /\ gptcli = Unpaired
    /\ retry = NoRetry

SpecKeys == InitKeys /\ [][Next]_vars

\* a session whose terminal output is followed
InitScreen ==
    /\ pc = "idle"
    /\ buffer = <<>>
    /\ ctrl_c_pressed_once = FALSE
    /\ esc_reset_pending = FALSE
    /\ pending_esc = FALSE
    /\ input_history = InputHistory(100)
    /\ current_buffer = <<>>
    /\ term_mode = "cooked"
    /\ old_settings = "cooked"
    /\ raw_entered = FALSE
    /\ exit_kind = "none"
    /\ result = NoResult
    /\ restores = 0
    /\ lastByte = NoByte
    /\ lastEvent = "None"
    /\ opening = "start"
    /\ keys = TextKeys
    /\ screen = FreshScreen
    /\ h_ret = NoEntry
    /\ h_live = <<>>
    /\ h_back = 0
    /\ h_fwd = 0
    /\ h_phase = "none"
    /\ h_accepted = <<>>
    /\ h_call = NoCall
    /\ p_input = <<>>
    /\ p_result = NotParsed
    /\ source = "open"
    /\ selected = NoItem
    /\ gptcli = Unpaired
    /\ retry = NoRetry

SpecScreen == InitScreen /\ [][Next]_vars

\* A session in which GPTCLI.get_multiline_input is fed the same bytes
InitPair ==
    /\ pc = "idle"
    /\ buffer = <<>>
    /\ ctrl_c_pressed_once = FALSE
    /\ esc_reset_pending = FALSE
    /\ pending_esc = FALSE
    /\ input_history = InputHistory(100)
    /\ current_buffer = <<>>
    /\ term_mode = "cooked"
    /\ old_settings = "cooked"
    /\ raw_entered = FALSE
    /\ exit_kind = "none"
    /\ result = NoResult
    /\ restores = 0
    /\ lastByte = NoByte
    /\ lastEvent = "None"
    /\ opening = "start"
    /\ keys = Bytes
    /\ screen = Unfollowed
    /\ h_ret = NoEntry
    /\ h_live = <<>>
    /\ h_back = 0
    /\ h_fwd = 0
    /\ h_phase = "none"
    /\ h_accepted = <<>>
    /\ h_call = NoCall
    /\ p_input = <<>>
    /\ p_result = NotParsed
    /\ source = "open"
    /\ selected = NoItem
    /\ gptcli = GPTCLI_idle
    /\ retry = NoRetry

SpecPair == InitPair /\ [][Next]_vars

TypeOK ==
    /\ pc \in {"idle", "read", "final", "palette", "unwind", "fallback", "exited", "hist", "parse",
              "retry", "empty"}
    /\ Len(buffer) <= MaxLen
    /\ term_mode \in {"cooked", "raw"}

----------------------------------------------------------------------------
(* SpecHist: an InputHistory object on its own *)

HistCaps == 1..MaxCap

HistTexts == { <<>>, <<SP>>, <<UP>>, <<SP, UP>>, <<DOWN>>, <<DOWN, SP>>, <<LBRACKET>> }

InitHist ==
    /\ pc = "hist"
    /\ \E max \in HistCaps : input_history = InputHistory(max)
    /\ buffer = <<>>
    /\ ctrl_c_pressed_once = FALSE
    /\ esc_reset_pending = FALSE
    /\ pending_esc = FALSE
    /\ current_buffer = <<>>
    /\ term_mode = "cooked"
    /\ old_settings = "cooked"
    /\ raw_entered = FALSE
    /\ exit_kind = "none"
    /\ result = NoResult
    /\ restores = 0
    /\ lastByte = NoByte
    /\ lastEvent = "None"
    /\ opening = "start"
    /\ keys = Bytes
    /\ screen = Unfollowed
    /\ h_ret = NoEntry
    /\ h_live = <<>>
    /\ h_back = 0
    /\ h_fwd = 0
    /\ h_phase = "fill"
    /\ h_accepted = <<>>
    /\ h_call = NoCall
    /\ p_input = <<>>
    /\ p_result = NotParsed
    /\ source = "open"
    /\ selected = NoItem
    /\ gptcli = Unpaired
    /\ retry = NoRetry

editorState == <<buffer, ctrl_c_pressed_once, esc_reset_pending, pending_esc,
                 current_buffer, term_mode, old_settings, raw_entered, exit_kind,
                 result, restores, traceVars, keys, screen, source, selected, gptcli>>

editorVars == <<editorState, parseVars, retry>>

\* The walk is over: something other than "add_entry calls, then get_previous
\* calls, then get_next calls" has been called.
WalkBroken ==
    /\ h_phase' = "free"
    /\ h_live' = <<>>
    /\ h_back' = 0
    /\ h_fwd' = 0

\* The method op has been called with argument arg.
Called(op, arg) ==
    h_call' = [op |-> op, arg |-> arg, same |-> (input_history' = input_history)]

\* add_entry(input_text) stores a new entry: the text is not blank and, trimmed,
\* differs from the newest entry
Accepted(H, input_text) ==
    /\ \E i \in 1..Len(input_text) : ~IsSpace(input_text[i])
    /\ (H.history = <<>> \/ H.history[Len(H.history)] # Strip(input_text))

HAddEntry ==
    /\ pc = "hist"
    /\ \E input_text \in HistTexts :
          /\ Accepted(input_history, input_text) => Len(h_accepted) < MaxAccepted
          /\ input_history' = add_entry(input_history, input_text)
          /\ Called("add_entry", input_text)
          /\ h_accepted' = IF Accepted(input_history, input_text)
                           THEN Append(h_accepted, Strip(input_text))
                           ELSE h_accepted
    /\ h_ret' = NoEntry
    /\ IF h_phase = "fill" THEN UNCHANGED <<h_phase, h_live, h_back, h_fwd>>
       ELSE WalkBroken
    /\ UNCHANGED <<pc, editorVars>>

HGetPrevious ==
    /\ pc = "hist"
    /\ \E current_input \in HistTexts :
          LET r == get_previous(input_history, current_input) IN
          /\ input_history' = r.H
          /\ h_ret' = r.ret
          /\ Called("get_previous", current_input)
          /\ IF h_phase = "fill"
             THEN /\ h_phase' = "back"
                  /\ h_live' = current_input
                  /\ h_back' = 1
                  /\ h_fwd' = 0
             ELSE IF h_phase = "back" /\ h_back < Len(input_history.history)
             THEN /\ h_back' = h_back + 1
                  /\ UNCHANGED <<h_phase, h_live, h_fwd>>
             ELSE WalkBroken
    /\ UNCHANGED <<pc, editorVars, h_accepted>>

HGetNext ==
    /\ pc = "hist"
    /\ LET r == get_next(input_history) IN
       /\ input_history' = r.H
       /\ h_ret' = r.ret
    /\ Called("get_next", <<>>)
    /\ IF h_phase = "back"
       THEN /\ h_phase' = "fwd"
            /\ h_fwd' = 1
            /\ UNCHANGED <<h_live, h_back>>
       ELSE IF h_phase = "fwd" /\ h_fwd < h_back
       THEN /\ h_fwd' = h_fwd + 1
            /\ UNCHANGED <<h_phase, h_live, h_back>>
       ELSE WalkBroken
    /\ UNCHANGED <<pc, editorVars, h_accepted>>

HResetPosition ==
    /\ pc = "hist"
    /\ input_history' = reset_position(input_history)
    /\ h_ret' = NoEntry
    /\ Called("reset_position", <<>>)
    /\ WalkBroken
    /\ UNCHANGED <<pc, editorVars, h_accepted>>

\* clear() leaves the object as constructed
HClear ==
    /\ pc = "hist"
    /\ input_history' = clear(input_history)
    /\ h_ret' = NoEntry
    /\ Called("clear", <<>>)
    /\ h_phase' = "fill"
    /\ h_live' = <<>>
    /\ h_back' = 0
    /\ h_fwd' = 0
    /\ h_accepted' = <<>>
    /\ UNCHANGED <<pc, editorVars>>

NextHist ==
    \/ HAddEntry
    \/ HGetPrevious
    \/ HGetNext
    \/ HResetPosition
    \/ HClear

SpecHist == InitHist /\ [][NextHist]_vars

----------------------------------------------------------------------------
(* SpecParse: lines given to CommandValidator.parse_command, one after another *)

InitParse ==
    /\ pc = "parse"
    /\ buffer = <<>>
    /\ ctrl_c_pressed_once = FALSE
    /\ esc_reset_pending = FALSE
    /\ pending_esc = FALSE
    /\ input_history = InputHistory(100)
    /\ current_buffer = <<>>
    /\ term_mode = "cooked"
    /\ old_settings = "cooked"
    /\ raw_entered = FALSE
    /\ exit_kind = "none"
    /\ result = NoResult
    /\ restores = 0
    /\ lastByte = NoByte
    /\ lastEvent = "None"
    /\ opening = "start"
    /\ keys = Bytes
    /\ screen = Unfollowed
    /\ h_ret = NoEntry
    /\ h_live = <<>>
    /\ h_back = 0
    /\ h_fwd = 0
    /\ h_phase = "none"
    /\ h_accepted = <<>>
    /\ h_call = NoCall
    /\ p_input \in ParseLines
    /\ p_result = NotParsed
    /\ source = "open"
    /\ selected = NoItem
    /\ gptcli = Unpaired
    /\ retry = NoRetry

\* GPTCLI.handle_command, line 393: cmd_info = CommandValidator.parse_command(user_input)
ParseCommand ==
    /\ pc = "parse"
    /\ p_result = NotParsed
    /\ p_result' = parse_command(p_input)
    /\ UNCHANGED <<pc, p_input, input_history, editorState, walkVars, retry>>

\* the next line reaches handle_command
NextLine ==
    /\ pc = "parse"
    /\ p_result # NotParsed
    /\ p_input' \in ParseLines
    /\ p_result' = NotParsed
    /\ UNCHANGED <<pc, input_history, editorState, walkVars, retry>>

NextParse ==
    \/ ParseCommand
    \/ NextLine

SpecParse == InitParse /\ [][NextParse]_vars

----------------------------------------------------------------------------
(* Properties *)

\* a step of the read loop that consumes byte b (line 61 or line 70)
ReadsByte(b) == pc \in {"read", "final"} /\ lastByte' = b

\* an Escape byte handled as a key press, not as the final byte of ESC [ x
EscapePress == lastByte = ESC /\ lastEvent \in {"EscapeArmFirst", "EscapeConfirm", "EscapeIdle"}

\* C1: from every editor state, a Ctrl+C byte read right after a Ctrl+C byte
\* ends the call by raising KeyboardInterrupt, a pending escape sequence included.
C1_TwoInterruptsEndTheCall ==
    [][ (ReadsByte(CTRL_C) /\ lastByte = CTRL_C)
            => (pc' = "unwind" /\ exit_kind' = "interrupt") ]_vars

C3_FullWalkReturnsLiveText ==
    (/\ h_phase = "fwd"
     /\ h_back = Len(input_history.history)
     /\ h_fwd = h_back)
        => (h_ret = Entry(h_live) /\ input_history.position = 0)

C3_Witness ==
    /\ h_phase = "fwd"
    /\ Len(input_history.history) = 2
    /\ h_back = 2
    /\ h_fwd = 2
    /\ h_live = <<SP, UP>>
    /\ h_ret = Entry(<<SP, UP>>)

\* C4: in every call, when the history is not empty and ESC [ A are the first
\* bytes of the call, the buffer then holds the most recently submitted entry.
C4_FirstUpRecallsLastEntry ==
    (/\ pc = "read"
     /\ opening = "esc-bracket-up"
     /\ input_history.history # <<>>)
        => buffer = input_history.history[Len(input_history.history)]

\* C5: ESC [ x is one key event: the '[' that follows an Escape press is never
\* appended and never follows a clearing Escape, x = A is get_previous, x = B is
\* get_next, any other x leaves buffer and history alone.
C5_EscapeSequenceIsOneKeyEvent ==
    [][ /\ (pc = "read" /\ ReadsByte(LBRACKET) /\ EscapePress)
            => (pc' = "final" /\ buffer' = buffer /\ lastEvent # "EscapeConfirm")
        /\ (pc = "final" /\ ReadsByte(UP))
            => LET r == get_previous(input_history, buffer) IN
               /\ input_history' = r.H
               /\ buffer' = IF r.ret.some THEN r.ret.val ELSE buffer
        /\ (pc = "final" /\ ReadsByte(DOWN))
            => LET r == get_next(input_history) IN
               /\ input_history' = r.H
               /\ buffer' = IF r.ret.some THEN r.ret.val ELSE <<>>
        /\ (pc = "final" /\ \E x \in Bytes \ {UP, DOWN} : ReadsByte(x))
            => (buffer' = buffer /\ input_history' = input_history) ]_vars

\* C6: the Ctrl+C latch and the Escape-reset latch are never both armed.
C6_LatchesNeverBothArmed ==
    ~(ctrl_c_pressed_once /\ esc_reset_pending)

\* C7: an Escape byte empties a buffer with content only when the byte read
\* just before it was an Escape too.
C7_ClearNeedsTwoConsecutiveEscapes ==
    [][ (pc = "read" /\ ReadsByte(ESC) /\ has_content(buffer) /\ buffer' = <<>>)
            => lastByte = ESC ]_vars

\* C8: a Ctrl+C ends the call only when the key event just before it was the
\* arming Ctrl+C; a Ctrl+C read after any other byte does not end the call,
\* leaves buffer and history alone and, as a key press, arms the latch.
C8_CtrlCAfterOtherKeyOnlyArms ==
    [][ /\ (exit_kind # "interrupt" /\ exit_kind' = "interrupt")
            => (lastByte = CTRL_C /\ lastEvent = "InterruptFirst" /\ lastByte' = CTRL_C)
        /\ (ReadsByte(CTRL_C) /\ lastByte # CTRL_C)
            => /\ pc' = "read"
               /\ exit_kind' = "none"
               /\ buffer' = buffer
               /\ input_history' = input_history
               /\ pc = "read" => ctrl_c_pressed_once' ]_vars

C8_Witness ==
    /\ pc = "read"
    /\ opening = "ctrlc-x-ctrlc"
    /\ lastByte = CTRL_C
    /\ ctrl_c_pressed_once
    /\ exit_kind = "none"

\* C9: when an Escape press on a buffer with content is followed at once by
\* another Escape byte, the buffer is empty, both latches are disarmed and
\* the call is still reading.
C9_DoubleEscapeClears ==
    [][ (/\ pc = "read"
         /\ lastByte = ESC
         /\ lastEvent \in {"EscapeArmFirst", "EscapeConfirm"}
         /\ ReadsByte(ESC))
            => /\ buffer' = <<>>
               /\ ~ctrl_c_pressed_once'
               /\ ~esc_reset_pending'
               /\ pc' = "read"
               /\ exit_kind' = "none" ]_vars

C9_Witness ==
    /\ pc = "read"
    /\ lastByte = ESC
    /\ lastEvent = "EscapeConfirm"
    /\ buffer = <<>>
    /\ ~ctrl_c_pressed_once
    /\ ~esc_reset_pending

\* C10: a Backspace or Delete key removes exactly the last character of a
\* non-empty buffer, an embedded newline included, and leaves an empty buffer
\* empty; "ab", newline, "cd" gives "ab" after three and "a" after four.
C10_BackspaceRemovesLastCharacter ==
    /\ AfterBackspace(AfterBackspace(AfterBackspace(<<97, 98, LF, 99, 100>>))) = <<97, 98>>
    /\ AfterBackspace(<<97, 98>>) = <<97>>
    /\ [][ (pc = "read" /\ \E ch \in {DEL, BS} : ReadsByte(ch))
              => /\ buffer' = IF buffer = <<>> THEN <<>> ELSE Pop(buffer)
                 /\ pc' = "read" ]_vars

C10_Witness ==
    /\ pc = "read"
    /\ lastEvent = "Backspace"
    /\ lastByte = DEL
    /\ buffer = <<UP>>

\* no newline at the start of the text and no newline right after a newline
NoEmptyLineBefore(buf) ==
    \A i \in 1..Len(buf) : buf[i] = LF => (i > 1 /\ buf[i - 1] # LF)

Blank(buf) == \A i \in 1..Len(buf) : IsSpace(buf[i])

\* C12: a carriage return handled as a key on an empty or whitespace-only
\* buffer empties the buffer, keeps the call reading and leaves the history
\* alone; on a buffer with other content it leaves the loop, and the call
\* then returns the text and records it in the history.
C12_EnterSubmitsOnlyContent ==
    [][ /\ (pc = "read" /\ ReadsByte(CR) /\ Blank(buffer))
            => /\ buffer' = <<>>
               /\ pc' = "read"
               /\ exit_kind' = "none"
               /\ result' = NoResult
               /\ input_history' = input_history
        /\ (pc = "read" /\ ReadsByte(CR) /\ ~Blank(buffer))
            => /\ pc' = "unwind"
               /\ exit_kind' = "submit"
               /\ buffer' = buffer
        /\ (pc = "unwind" /\ exit_kind = "submit" /\ pc' # pc)
            => /\ pc' = "idle"
               /\ result' = Text(buffer)
               /\ ~Blank(buffer)
               /\ input_history' = add_entry(input_history, buffer) ]_vars

\* self._current_buffer still holds the blank text that the carriage return dropped
C12_Witness ==
    /\ pc = "read"
    /\ lastEvent = "EnterBlank"
    /\ lastByte = CR
    /\ buffer = <<>>
    /\ current_buffer = <<SP>>
    /\ result = NoResult

\* C13 as stated: a slash opens the palette as the very first byte of the call,
\* and is a literal character once another character has been typed in the
\* call, here a character that Backspace has removed again.
C13_SlashAfterTypingIsLiteral ==
    [][ /\ (pc = "read" /\ opening = "start" /\ ReadsByte(SLASH))
            => (pc' = "palette" /\ buffer' = buffer)
        /\ (pc = "read" /\ opening = "char-erased" /\ ReadsByte(SLASH))
            => (pc' = "read" /\ buffer' = Append(buffer, SLASH)) ]_vars

\* C13: a slash handled as a key while the buffer is empty starts the palette
\* hook, once, and stays out of the buffer; while the buffer is not empty it is
\* appended as a literal character and the hook is not started.
C13_SlashOpensPaletteOnEmptyBuffer ==
    [][ (pc = "read" /\ ReadsByte(SLASH))
            => IF buffer = <<>>
               THEN pc' = "palette" /\ buffer' = <<>>
               ELSE pc' = "read" /\ buffer' = Append(buffer, SLASH) ]_vars

C13_Witness ==
    /\ pc = "palette"
    /\ opening = "char-erased-slash"
    /\ lastByte = SLASH
    /\ buffer = <<>>

\* C14: when the palette hook has returned "exit", the call returns null and
\* the run loop ends instead of starting another call.
C14_PaletteExitEndsTheRunLoop ==
    [][ (pc = "unwind" /\ exit_kind = "palette_exit" /\ pc' # pc)
            => (result' = Null /\ pc' = "exited") ]_vars

\* C15: an Exception raised by the palette hook stays inside the call: the
\* terminal is in raw mode again, buffer, latches and history are as the hook
\* found them, and the loop reads the next byte as after "continue".
C15_HookFaultIsCaught ==
    [][ (pc = "palette" /\ lastEvent' = "PaletteFault")
            => /\ term_mode' = "raw"
               /\ pc' = "read"
               /\ exit_kind' = "none"
               /\ result' = NoResult
               /\ buffer' = buffer
               /\ input_history' = input_history
               /\ ctrl_c_pressed_once' = ctrl_c_pressed_once
               /\ esc_reset_pending' = esc_reset_pending
               /\ pending_esc' = pending_esc ]_vars

C15_Witness ==
    /\ pc = "read"
    /\ lastEvent = "PaletteFault"
    /\ lastByte = SLASH
    /\ term_mode = "raw"
    /\ buffer = <<>>
    /\ exit_kind = "none"

\* C16: the palette hook runs only while the terminal is in the mode saved
\* on entry, which is cooked; once it has returned "continue" the terminal is
\* in raw mode before the next byte is read, and neither the slash nor the
\* hook's return has changed buffer or history.
C16_HookRunsInCookedMode ==
    [][ /\ pc' = "palette" => (term_mode' = old_settings' /\ term_mode' = "cooked")
        /\ (pc = "read" /\ pc' = "palette")
            => (buffer' = buffer /\ input_history' = input_history)
        /\ (pc = "palette" /\ pc' = "read" /\ lastEvent' # "PaletteFault")
            => /\ term_mode' = "raw"
               /\ buffer' = buffer
               /\ input_history' = input_history
        /\ pc \in {"read", "final"} => term_mode = "raw" ]_vars

C16_Witness ==
    /\ pc = "read"
    /\ lastEvent = "PaletteTrigger"
    /\ lastByte = SLASH
    /\ term_mode = "raw"
    /\ old_settings = "cooked"
    /\ buffer = <<>>
    /\ input_history.history # <<>>

\* what a call hands back after the fallback read: null, or the line read
FallbackReturns == {Null} \cup {Text(line) : line \in FallbackLines \ {<<>>}}

\* C17 as stated: when raw-mode setup fails, the call does one line-buffered
\* read and returns the line or null, raises nothing, and leaves terminal mode
\* and history as they are.
C17_SetupFailureReturnsLineOrNull ==
    [][ /\ (pc = "idle" /\ pc' = "fallback")
            => (term_mode' = term_mode /\ input_history' = input_history)
        /\ (pc = "fallback" /\ ~raw_entered /\ pc' # pc)
            => /\ pc' = "idle"
               /\ result' \in FallbackReturns
               /\ term_mode' = term_mode
               /\ input_history' = input_history ]_vars

\* C17: when raw-mode setup fails, the call does one line-buffered read and
\* returns the line or null, or lets the KeyboardInterrupt of that read reach
\* the caller; it raises nothing else and leaves terminal mode and history as
\* they are.
C17_SetupFailureFallsBack ==
    [][ /\ (pc = "idle" /\ pc' = "fallback")
            => (term_mode' = term_mode /\ input_history' = input_history)
        /\ (pc = "fallback" /\ ~raw_entered /\ pc' # pc)
            => /\ \/ (pc' = "idle" /\ result' \in FallbackReturns)
                  \/ (pc' = "exited" /\ result' = Interrupt)
               /\ term_mode' = term_mode
               /\ input_history' = input_history ]_vars

C17_Witness ==
    /\ pc = "idle"
    /\ ~raw_entered
    /\ result = Text(<<UP>>)
    /\ term_mode = "cooked"
    /\ input_history.history = <<>>

\* C18: a fault raised while editing in raw mode leaves the call as an
\* exception once the finally block has restored the terminal: the call does
\* not go on to the fallback read.
C18_EditingFaultPropagates ==
    [][ (pc = "unwind" /\ exit_kind = "fault" /\ pc' # pc)
            => (term_mode' = old_settings /\ pc' # "fallback") ]_vars

\* C19: when a call that entered raw mode has returned or raised, the saved
\* terminal mode has been restored exactly once since raw mode was last entered.
C19_ExactlyOneRestorePerExit ==
    (pc \in {"idle", "exited"} /\ raw_entered) => restores = 1

\* C20: an InputHistory of capacity C holds the last min(C, k) of the k entries
\* it has accepted, oldest first: never more than C, and an append at capacity
\* drops exactly the oldest entry.
C20_HistoryKeepsNewestEntries ==
    pc = "hist" =>
        LET k == Len(h_accepted)
            C == input_history.max_entries
            n == IF C < k THEN C ELSE k
        IN  /\ Len(input_history.history) <= C
            /\ input_history.history = SubSeq(h_accepted, k - n + 1, k)

C20_Witness ==
    /\ pc = "hist"
    /\ input_history.max_entries = 2
    /\ Len(h_accepted) = 4
    /\ input_history.history = SubSeq(h_accepted, 3, 4)
    /\ h_accepted[1] # h_accepted[3]

NoAdjacentEqual(h) == \A i \in 1..(Len(h) - 1) : h[i] # h[i + 1]

\* C21: no two adjacent stored entries are equal, whatever InputHistory methods
\* were called: add_entry with a text whose trimmed form equals the newest
\* entry leaves the object as it was, so add_entry("x") twice gives length 1.
C21_NoAdjacentDuplicates ==
    /\ \A max \in HistCaps :
          Len(add_entry(add_entry(InputHistory(max), <<UP>>), <<UP>>).history) = 1
    /\ [][ /\ NoAdjacentEqual(input_history'.history)
           /\ (/\ h_call'.op = "add_entry"
               /\ input_history.history # <<>>
               /\ RStrip(LStrip(h_call'.arg)) = input_history.history[Len(input_history.history)])
                  => input_history' = input_history ]_vars

C21_Witness ==
    /\ pc = "hist"
    /\ h_call = [op |-> "add_entry", arg |-> <<SP, UP>>, same |-> TRUE]
    /\ input_history.history = << <<UP>> >>
    /\ h_accepted = << <<UP>> >>

\* the text has a first and a last character and neither is whitespace
Trimmed(e) == e # <<>> /\ ~IsSpace(e[1]) /\ ~IsSpace(e[Len(e)])

\* C22: add_entry with an empty or whitespace-only text leaves entries, offset
\* and snapshot as they were, in every state of the history; every stored entry
\* is non-blank and has no whitespace at either end.
C22_BlankEntryChangesNothing ==
    [][ /\ (h_call'.op = "add_entry" /\ Blank(h_call'.arg))
               => input_history' = input_history
        /\ \A i \in 1..Len(input_history'.history) :
               Trimmed(input_history'.history[i]) ]_vars

C22_Witness ==
    /\ pc = "hist"
    /\ h_call = [op |-> "add_entry", arg |-> <<SP>>, same |-> TRUE]
    /\ Len(input_history.history) = 2
    /\ input_history.position = 1
    /\ input_history.original_input = <<DOWN, SP>>

\* C23: get_previous at the oldest entry (or on an empty history) and get_next
\* at offset 0 return no entry and leave entries, offset and snapshot alone;
\* any other get_next lowers the offset by one and returns the snapshot at
\* offset 0, else the entry at the new offset counted from the newest.
C23_NavigationClampsAtBothEnds ==
    [][ LET H == input_history
            n == Len(H.history)
        IN  /\ (h_call'.op = "get_previous" /\ (n = 0 \/ H.position = n))
                   => (h_ret' = NoEntry /\ input_history' = H)
            /\ (h_call'.op = "get_next" /\ H.position = 0)
                   => (h_ret' = NoEntry /\ input_history' = H)
            /\ (h_call'.op = "get_next" /\ H.position > 0)
                   => /\ input_history' = [H EXCEPT !.position = H.position - 1]
                      /\ h_ret' = IF H.position = 1
                                  THEN Entry(H.original_input)
                                  ELSE Entry(H.history[n - (H.position - 1) + 1]) ]_vars

C23_Witness ==
    /\ pc = "hist"
    /\ h_call.op = "get_previous"
    /\ h_call.same
    /\ h_ret = NoEntry
    /\ Len(input_history.history) = 2
    /\ input_history.position = 2

\* how the read loop consumes a key that is neither up-arrow nor down-arrow
OtherKeyEvents ==
    {"Printable", "Backspace", "NewlineInsert", "NewlineIgnored", "EnterBlank",
     "Submit", "EscapeArmFirst", "EscapeConfirm", "EscapeIdle", "InterruptFirst",
     "InterruptConfirm"}

\* C24: once the editor has handled a key other than up-arrow and down-arrow
\* (printable byte, Backspace, Ctrl+J, carriage return, Escape, Ctrl+C), the
\* navigation offset is 0 and the snapshot is empty.
C24_OtherKeysResetNavigation ==
    [][ (pc = "read" /\ lastEvent' \in OtherKeyEvents)
            => (input_history'.position = 0 /\ input_history'.original_input = <<>>) ]_vars

\* C25: a down-arrow puts the text get_next returns in place of the whole
\* buffer, and empties the buffer when the offset is already 0, whatever had
\* been typed; an up-arrow puts the recalled entry in place of the whole buffer,
\* and leaves the buffer as it is when there is no older entry.
C25_HistoryResultReplacesBuffer ==
    [][ LET H == input_history
            n == Len(H.history)
        IN  /\ (pc = "final" /\ ReadsByte(DOWN))
                   => buffer' = IF H.position = 0 THEN <<>>
                                ELSE IF H.position = 1 THEN H.original_input
                                ELSE H.history[n - H.position + 2]
            /\ (pc = "final" /\ ReadsByte(UP))
                   => buffer' = IF n = 0 \/ H.position = n THEN buffer
                                ELSE H.history[n - H.position] ]_vars

\* one character typed, then ESC [ B with the history at its live edge
C25_Witness ==
    /\ pc = "read"
    /\ opening = "char-esc-bracket-down"
    /\ lastEvent = "HistoryDown"
    /\ buffer = <<>>
    /\ input_history.position = 0
    /\ input_history.history # <<>>

\* the printable range of single bytes
IsPrintable(ch) == ch \in 32..126

\* the bytes an earlier branch of the loop takes whatever the buffer holds
KeysWithAction == {CTRL_C, CR, LF, DEL, BS, ESC}

\* C26: a byte outside the printable range that has no action of its own
\* leaves the buffer as it is; a byte the printable branch takes is appended,
\* resets the history navigation and leaves no latch armed.
C26_OnlyPrintableBytesAppended ==
    [][ /\ (pc = "read" /\ \E ch \in keys \ KeysWithAction :
                                 ~IsPrintable(ch) /\ ReadsByte(ch))
               => buffer' = buffer
        /\ (pc = "read" /\ lastEvent' = "Printable")
               => /\ buffer' = Append(buffer, lastByte')
                  /\ input_history' = reset_position(input_history)
                  /\ ~ctrl_c_pressed_once'
                  /\ ~esc_reset_pending' ]_vars

\* C27: parse_command takes a line whose first word is a command name, such as
\* "save test.json", as a command: is_command is true, command is the first
\* word in lower case and args is the list of the words after it.
C27_SaveLineIsACommand ==
    (p_result # NotParsed /\ p_input = W_save \o <<SP>> \o W_test_json)
        => /\ p_result.is_command
           /\ p_result.command = W_save
           /\ p_result.args = <<W_test_json>>

\* C30: a call's handling of its bytes depends on the stored entries only, not
\* on the navigation or the draft of an earlier call: every call starts with
\* offset 0 and an empty snapshot, and ESC [ B as the first bytes of a call
\* leaves the buffer empty.
C30_CallIndependentOfEarlierNavigation ==
    [][ /\ (pc = "idle" /\ pc' = "read")
               => (input_history.position = 0 /\ input_history.original_input = <<>>)
        /\ (pc = "final" /\ opening = "esc-bracket" /\ ReadsByte(DOWN))
               => buffer' = <<>> ]_vars

\* the column right after the last character of the last line of buf: the
\* width of ">> ", the characters since the last newline, and one
EndOfLastLine(buf) == 3 + Len(LastLine(buf)) + 1

\* C28: when the helper row has been repainted and the cursor put back by
\* absolute column (Ctrl+C warning, Escape hint, warning removed by a key that
\* writes nothing else, help line after a history replace), the cursor is at
\* the prompt-marker width plus the characters since the last newline of the
\* buffer, for single-line and multi-line buffers alike.
C28_CursorColumnAfterHelperRepaint ==
    [][ /\ (pc = "read" /\ lastEvent' \in {"InterruptFirst", "EscapeArmFirst"})
               => screen'.c = EndOfLastLine(buffer')
        /\ (pc = "read" /\ ctrl_c_pressed_once
                /\ lastEvent' \in {"NewlineIgnored", "EscapeIdle"})
               => screen'.c = EndOfLastLine(buffer')
        /\ (pc = "final" /\ lastEvent' \in {"HistoryUp", "HistoryDown"} /\ buffer' # buffer)
               => screen'.c = EndOfLastLine(buffer') ]_vars

\* the rows showing the prompt marker, and the rows showing a helper text
PromptRows(scr) ==
    {i \in 1..Len(scr.rows) :
        Len(scr.rows[i]) >= 2 /\ scr.rows[i][1] = GT /\ scr.rows[i][2] = GT}

HelperRows(scr) ==
    {i \in 1..Len(scr.rows) : scr.rows[i] # <<>> /\ scr.rows[i][1] \in HelperMarks}

\* one prompt row per line of buf, the helper text on the row right below the
\* last of them, and nothing on any other row
ShowsBuffer(scr, buf) ==
    /\ Cardinality(PromptRows(scr)) = CountNewlines(buf) + 1
    /\ \E last \in PromptRows(scr) :
          /\ \A i \in PromptRows(scr) : i <= last
          /\ HelperRows(scr) = {last + 1}
    /\ \A i \in 1..Len(scr.rows) :
          scr.rows[i] # <<>> => i \in PromptRows(scr) \cup HelperRows(scr)

\* C29: after a key event that changes the number of buffer lines, the
\* terminal shows one prompt row per buffer line, the helper line on the row
\* right below the last of them, and no row of the earlier buffer.
C29_RowsFollowBufferLines ==
    [][ (/\ pc \in {"read", "final"}
         /\ pc' = "read"
         /\ CountNewlines(buffer') # CountNewlines(buffer))
            => ShowsBuffer(screen', buffer') ]_vars

\* C31: every text a call returns, from the raw-mode path or from the
\* line-buffered fallback, holds at least one character that is not whitespace.
C31_ReturnedTextIsNeverBlank ==
    result.kind = "text" => \E i \in 1..Len(result.text) : ~IsSpace(result.text[i])

C33_OffsetWithinEntries ==
    /\ input_history.position >= 0
    /\ input_history.position <= Len(input_history.history)
    /\ input_history.position > 0
         => (Len(input_history.history) - input_history.position + 1)
                \in DOMAIN input_history.history

C33_Witness ==
    /\ pc = "hist"
    /\ input_history.position = MaxCap
    /\ Len(input_history.history) = MaxCap
    /\ h_call.op = "get_previous"

\* C35: at every step in which a repaint helper reads self._current_buffer before
\* the loop has assigned it again (the return from the palette, the reset of the
\* Ctrl+C latch, the reset of the Escape hint by a key or an ignored sequence, the
\* first Escape), the stored text equals the live buffer of the loop.
C35_StoredBufferIsLiveWhenRead ==
    [][ /\ (pc = "palette" /\ pc' = "read")
            => current_buffer = buffer
        /\ (pc = "read" /\ ctrl_c_pressed_once /\ ~ctrl_c_pressed_once')
            => current_buffer = buffer
        /\ (pc = "read" /\ ~ctrl_c_pressed_once /\ esc_reset_pending
              /\ ~esc_reset_pending' /\ lastByte' # ESC)
            => current_buffer = buffer
        /\ (pc = "read" /\ ~ctrl_c_pressed_once /\ lastEvent' = "EscapeArmFirst"
              /\ esc_reset_pending')
            => current_buffer = buffer
        /\ (pc = "final" /\ esc_reset_pending /\ buffer' = buffer /\ pc' = "read")
            => current_buffer = buffer ]_vars

\* C37: selecting the palette's exit item while the editor has the palette open
\* takes the call out by KeyboardInterrupt, the run loop is left (it breaks on
\* KeyboardInterrupt), and the terminal is in cooked mode from the moment the
\* palette was opened until the loop is left.
C37_ExitCommandEndsTheSession ==
    [][ /\ (pc = "palette" /\ selected' = "exit")
            => /\ term_mode = "cooked"
               /\ pc' = "unwind"
               /\ exit_kind' = "hook_interrupt"
               /\ term_mode' = "cooked"
        /\ (pc = "unwind" /\ selected = "exit" /\ pc' # pc)
            => /\ pc' = "exited"
               /\ result' = Interrupt
               /\ term_mode' = "cooked"
        /\ (pc = "exited" /\ selected = "exit")
            => pc' = "exited" ]_vars

C37_Witness ==
    /\ pc = "exited"
    /\ selected = "exit"
    /\ raw_entered
    /\ result = Interrupt
    /\ term_mode = "cooked"

\* C34: once the keyboard has reached end of input while the call is reading in
\* raw mode, the call ends: it returns, reaches the fallback, or raises.
C34_EndOfInputEndsTheCall ==
    (source = "ended" /\ pc \in {"read", "empty", "final"})
        ~> (pc \in {"idle", "fallback", "exited"})

\* what TerminalInputHandler.get_multiline_input has come to, in the words of C36
HandlerOutcome ==
    IF pc = "palette" THEN "palette"
    ELSE IF pc = "unwind" /\ exit_kind = "submit" THEN "submitted"
    ELSE IF pc = "unwind" /\ exit_kind = "interrupt" THEN "interrupt"
    ELSE "editing"

\* C36: while no Escape byte has been read in the call, the editor of cli.py and
\* the editor of terminal_input.py hold the same buffer after each byte and have
\* reached the same outcome (editing, submitted, palette call, interrupt).
C36_EditorsInLockstep ==
    (/\ gptcli.on
     /\ pc \in {"read", "palette", "unwind"}
     /\ exit_kind \in {"none", "submit", "interrupt"}
     /\ ~gptcli.escaped
     /\ gptcli.outcome # "apart")
        => /\ gptcli.buffer = buffer
           /\ gptcli.outcome = HandlerOutcome

----------------------------------------------------------------------------
(* RetryHandler.retry_with_backoff, src/src/utils/error_handler.py lines 15-38 *)

MaxRetries == 3      \* largest max_retries a RetryHandler is built with

\* GroqClient.__init__ passes config.get('retry_attempts', 3), an int read from
\* GPT_RETRY_ATTEMPTS or the config file; nothing checks it before the call
RetryCounts == 0..MaxRetries

\* except (requests.RequestException, ConnectionError, TimeoutError)
NetworkErrors == {"RequestException", "ConnectionError", "TimeoutError"}

\* an exception of func caught by `except Exception`
OtherErrors == {"ValueError"}

None == "None"

RECURSIVE Pow2(_)
Pow2(n) == IF n = 0 THEN 1 ELSE 2 * Pow2(n - 1)

\* lines 10-17: the handler and the locals of one call of retry_with_backoff
RetryHandler(max_retries, base_delay) ==
    [on |-> TRUE, max_retries |-> max_retries, base_delay |-> base_delay,
     attempt |-> 0, last_exception |-> None, log |-> <<>>,
     status |-> "loop", value |-> None]

Called_func(outcome) == [op |-> "call", what |-> outcome]
Slept(delay) == [op |-> "sleep", what |-> delay]

\* line 38: `raise last_exception`; raising None is a TypeError
RaiseLast(last_exception) ==
    IF last_exception = None THEN "TypeError" ELSE last_exception

\* lines 19-21: func returns
FuncReturns ==
    /\ pc = "retry"
    /\ retry.status = "loop"
    /\ retry.attempt < retry.max_retries
    /\ retry' = [retry EXCEPT !.log = Append(@, Called_func("returns")),
                              !.status = "returned",
                              !.value = "result"]
    /\ UNCHANGED <<pc, input_history, editorState, walkVars, parseVars>>

\* lines 22-29: func raises a network exception
FuncNetworkError ==
    /\ pc = "retry"
    /\ retry.status = "loop"
    /\ retry.attempt < retry.max_retries
    /\ \E e \in NetworkErrors :
          retry' = [retry EXCEPT
                       !.last_exception = e,
                       !.log = IF retry.attempt < retry.max_retries - 1
                               THEN Append(Append(@, Called_func(e)),
                                           Slept(retry.base_delay * Pow2(retry.attempt)))
                               ELSE Append(@, Called_func(e)),
                       !.attempt = @ + 1]
    /\ UNCHANGED <<pc, input_history, editorState, walkVars, parseVars>>

\* lines 30-32: KeyboardInterrupt is raised again
FuncInterrupted ==
    /\ pc = "retry"
    /\ retry.status = "loop"
    /\ retry.attempt < retry.max_retries
    /\ retry' = [retry EXCEPT !.log = Append(@, Called_func("KeyboardInterrupt")),
                              !.status = "raised",
                              !.value = "KeyboardInterrupt"]
    /\ UNCHANGED <<pc, input_history, editorState, walkVars, parseVars>>

\* lines 33-35: any other exception is raised again without a retry
FuncOtherError ==
    /\ pc = "retry"
    /\ retry.status = "loop"
    /\ retry.attempt < retry.max_retries
    /\ \E e \in OtherErrors :
          retry' = [retry EXCEPT !.log = Append(@, Called_func(e)),
                                 !.status = "raised",
                                 !.value = e]
    /\ UNCHANGED <<pc, input_history, editorState, walkVars, parseVars>>

\* lines 19 and 37-38: range(self.max_retries) is used up
RetriesUsedUp ==
    /\ pc = "retry"
    /\ retry.status = "loop"
    /\ retry.attempt >= retry.max_retries
    /\ retry' = [retry EXCEPT !.status = "raised",
                              !.value = RaiseLast(retry.last_exception)]
    /\ UNCHANGED <<pc, input_history, editorState, walkVars, parseVars>>

InitRetry ==
    /\ pc = "retry"
    /\ buffer = <<>>
    /\ ctrl_c_pressed_once = FALSE
    /\ esc_reset_pending = FALSE
    /\ pending_esc = FALSE
    /\ input_history = InputHistory(100)
    /\ current_buffer = <<>>
    /\ term_mode = "cooked"
    /\ old_settings = "cooked"
    /\ raw_entered = FALSE
    /\ exit_kind = "none"
    /\ result = NoResult
    /\ restores = 0
    /\ lastByte = NoByte
    /\ lastEvent = "None"
    /\ opening = "start"
    /\ keys = Bytes
    /\ screen = Unfollowed
    /\ h_ret = NoEntry
    /\ h_live = <<>>
    /\ h_back = 0
    /\ h_fwd = 0
    /\ h_phase = "none"
    /\ h_accepted = <<>>
    /\ h_call = NoCall
    /\ p_input = <<>>
    /\ p_result = NotParsed
    /\ source = "open"
    /\ selected = NoItem
    /\ gptcli = Unpaired
    /\ \E max_retries \in RetryCounts : retry = RetryHandler(max_retries, 1)

NextRetry ==
    \/ FuncReturns
    \/ FuncNetworkError
    \/ FuncInterrupted
    \/ FuncOtherError
    \/ RetriesUsedUp

SpecRetry == InitRetry /\ [][NextRetry]_vars

\* the entries of the log that are calls of func
RECURSIVE Calls(_)
Calls(log) ==
    IF log = <<>> THEN <<>>
    ELSE IF Head(log).op = "call" THEN <<Head(log).what>> \o Calls(Tail(log))
    ELSE Calls(Tail(log))

\* C38: for every max_retries, retry_with_backoff calls func at most max_retries
\* times, returns the result of the first call that succeeds, lets any exception
\* other than a network one out after the call that raised it, sleeps only
\* between two calls, and raises nothing but an exception that func has raised.
C38_RetryRaisesOnlyWhatFuncRaised ==
    retry.on =>
        LET calls == Calls(retry.log) IN
        /\ Len(calls) <= retry.max_retries
        /\ \A i \in 1..(Len(calls) - 1) : calls[i] \in NetworkErrors
        /\ \A i \in 1..Len(retry.log) :
              retry.log[i].op = "sleep"
                  => /\ i > 1 /\ retry.log[i - 1].op = "call"
                     /\ (i < Len(retry.log) => retry.log[i + 1].op = "call")
                     /\ (i = Len(retry.log) => retry.status = "loop")
        /\ retry.status = "returned"
              => /\ calls # <<>> /\ calls[Len(calls)] = "returns"
                 /\ retry.value = "result"
        /\ retry.status = "raised"
              => /\ calls # <<>>
                 /\ retry.value = calls[Len(calls)]
                 /\ (retry.value \in NetworkErrors => Len(calls) = retry.max_retries)

====
